---------------------------- MODULE Spec2Model ----------------------------
(***************************************************************************)
(* Order-status aggregation and real-time notification engine              *)
(* (services/status-service/main.go): the StatusManager with its order     *)
(* map, its subscriber registry, the single RWMutex guarding both, the     *)
(* ingestion workers, the WebSocket subscribers and the query handlers;    *)
(* the stock of the inventory service                                      *)
(* (services/inventory-service/main.go); the event log with the order,     *)
(* inventory, payment, notification and shipping services that publish to  *)
(* it and read from it; and the browser's WebSocketClient                  *)
(* (unnamed/part_016).                                                     *)
(***************************************************************************)
EXTENDS Integers, Sequences, FiniteSets, TLC

(***************************************************************************)
(* Bounds of the model.                                                    *)
(***************************************************************************)
MaxApplied == 3          \* events applied in a run of Spec
MaxStoreEvents == 3      \* events applied in a run of SpecStore
MaxScenarioEvents == 4   \* events applied in a run of SpecScenario
MaxTime == 2             \* largest reading of the wall clock
MaxIngestEvents == 3     \* events applied in a run of SpecIngest
MaxFieldEvents == 3      \* events applied in a run of SpecFields
MaxQueryEvents == 3      \* events applied in a run of SpecFilter, SpecSearch
MaxApiEvents == 2        \* events applied in a run of SpecApi
MaxHistory == 3          \* history records written in a run of SpecInventory
MaxStreamEvents == 3     \* messages published in a run of SpecStreams
MaxRecentOrders == 11    \* orders created in a run of SpecRecent
MaxReplayEvents == 3     \* messages on the orders topic in a run of SpecReplay
MaxLatencyEvents == 5    \* events applied in a run of SpecLatency
MaxReadEvents == 3       \* events applied in a run of SpecReads
MaxSockets == 6          \* sockets created in a run of SpecClient
MaxClock == 16           \* browser time in a run of SpecClient, in delays
MaxRevenueEvents == 4    \* events applied in a run of SpecRevenue
MaxWellFormedEvents == 3 \* events applied in a run of SpecWellFormed

(***************************************************************************)
(* Identifiers and inputs.                                                 *)
(***************************************************************************)
Topics == {"orders", "inventory", "payment", "notification", "shipping"}
OrderIDs == {"X", "Y"}
\* The ids that uuid.New() returns, in the order in which it returns them.
RecentIDs ==
    <<"o01", "o02", "o03", "o04", "o05", "o06", "o07", "o08", "o09", "o10",
      "o11", "o12", "o13">>

AllOrderIDs == OrderIDs \cup {"Z"} \cup {RecentIDs[i] : i \in 1..Len(RecentIDs)}
Conns == {"c1", "c2"}

\* Fixed-point representation of a JSON number (float64): value * Scale.
Scale == 100

Absent == [absent |-> TRUE]
Str(s) == [str |-> s]
Num(n) == [num |-> n]
IsStr(v) == DOMAIN v = {"str"}
IsNum(v) == DOMAIN v = {"num"}

DataKeys == <<"amount", "product_id", "quantity", "tracking_number">>

\* The decoded payload of a message (map[string]interface{}), restricted to
\* the keys the aggregator looks at.
Payload(product, quantity, amount, tracking) ==
    [product_id |-> product, quantity |-> quantity,
     amount |-> amount, tracking_number |-> tracking]

NoFields == Payload(Absent, Absent, Absent, Absent)

(***************************************************************************)
(* The transition table of UpdateOrderStatus (switch eventType).           *)
(***************************************************************************)
TransitionTable ==
    [OrderCreated       |-> "created",
     InventoryConfirmed |-> "inventory_confirmed",
     InventoryRejected  |-> "inventory_rejected",
     PaymentCompleted   |-> "payment_completed",
     PaymentFailed      |-> "payment_failed",
     NotificationSent   |-> "notification_sent",
     Shipped            |-> "shipped"]

TableKinds == DOMAIN TransitionTable

(***************************************************************************)
(* encoding/json on the payload: Marshal writes the present keys in sorted *)
(* key order, Unmarshal rebuilds the map from the key/value pairs.         *)
(***************************************************************************)
RECURSIVE MarshalFrom(_, _)
MarshalFrom(data, i) ==
    IF i > Len(DataKeys) THEN << >>
    ELSE IF data[DataKeys[i]] = Absent THEN MarshalFrom(data, i + 1)
         ELSE << <<DataKeys[i], data[DataKeys[i]]>> >> \o MarshalFrom(data, i + 1)

jsonMarshal(data) == MarshalFrom(data, 1)

jsonUnmarshal(bytes) ==
    [k \in {DataKeys[i] : i \in 1..Len(DataKeys)} |->
        IF \E j \in 1..Len(bytes) : bytes[j][1] = k
        THEN bytes[CHOOSE j \in 1..Len(bytes) : bytes[j][1] = k][2]
        ELSE Absent]

\* int(quantity) on a float64: truncation toward zero.
IntOf(n) == IF n >= 0 THEN n \div Scale ELSE -((-n) \div Scale)

(***************************************************************************)
(* The mutation performed by UpdateOrderStatus under the lock.             *)
(***************************************************************************)
\* Mutant of NewOrder: the status is left at the zero value.
NewOrderNoStatus(orderID) ==
    [OrderID |-> orderID, ProductID |-> "", Quantity |-> 0,
     Status |-> "", Events |-> << >>, LastUpdated |-> 0,
     TrackingNumber |-> "", PaymentAmount |-> 0]

NewOrder(orderID) ==
    [OrderID |-> orderID, ProductID |-> "", Quantity |-> 0,
     Status |-> "created", Events |-> << >>, LastUpdated |-> 0,
     TrackingNumber |-> "", PaymentAmount |-> 0]

\* The switch on eventType, on the payload map m it unmarshals.
TableEffect(order, eventType, m) ==
    CASE eventType = "OrderCreated" ->
           [order EXCEPT
              !.ProductID = IF IsStr(m.product_id) THEN m.product_id.str ELSE @,
              !.Quantity  = IF IsNum(m.quantity) THEN IntOf(m.quantity.num) ELSE @,
              !.Status    = "created"]
      [] eventType = "InventoryConfirmed" -> [order EXCEPT !.Status = "inventory_confirmed"]
      [] eventType = "InventoryRejected"  -> [order EXCEPT !.Status = "inventory_rejected"]
      [] eventType = "PaymentCompleted" ->
           [order EXCEPT
              !.Status = "payment_completed",
              !.PaymentAmount = IF IsNum(m.amount) THEN m.amount.num ELSE @]
      [] eventType = "PaymentFailed"    -> [order EXCEPT !.Status = "payment_failed"]
      [] eventType = "NotificationSent" -> [order EXCEPT !.Status = "notification_sent"]
      [] eventType = "Shipped" ->
           [order EXCEPT
              !.Status = "shipped",
              !.TrackingNumber = IF IsStr(m.tracking_number)
                                 THEN m.tracking_number.str ELSE @]
      [] OTHER -> order

\* Mutant of ApplyKind: a transition is validated against the status held
\* (an inventory event applies to a created order only).
ApplyKindCausal(order, eventType, dataBytes) ==
    IF eventType \in {"InventoryConfirmed", "InventoryRejected"}
       /\ order.Status # "created"
    THEN order
    ELSE TableEffect(order, eventType, jsonUnmarshal(dataBytes))

\* Mutant of ApplyKind: the fields are extracted whatever the kind is.
ApplyKindExtractsAlways(order, eventType, dataBytes) ==
    LET m == jsonUnmarshal(dataBytes)
        o == TableEffect(order, eventType, m)
    IN [o EXCEPT
          !.TrackingNumber = IF IsStr(m.tracking_number)
                             THEN m.tracking_number.str ELSE @,
          !.PaymentAmount = IF IsNum(m.amount) THEN m.amount.num ELSE @]

\* Mutant of ApplyKind: the amount is assigned without looking at the
\* result of the type assertion, so an event without one zeroes it.
ApplyKindAssignsAmount(order, eventType, dataBytes) ==
    LET m == jsonUnmarshal(dataBytes)
        o == TableEffect(order, eventType, m)
    IN [o EXCEPT !.PaymentAmount = IF IsNum(m.amount) THEN m.amount.num ELSE 0]

ApplyKind(order, eventType, dataBytes) ==
    TableEffect(order, eventType, jsonUnmarshal(dataBytes))

\* Mutant of ApplyEvent: only the events of a kind in the table are recorded.
ApplyEventTableOnly(order, eventType, data, t1, t2) ==
    LET dataBytes == jsonMarshal(data)
        event == [EventType |-> eventType, Data |-> dataBytes, Timestamp |-> t1]
    IN IF eventType \in TableKinds
       THEN ApplyKind([order EXCEPT !.Events = Append(@, event),
                                    !.LastUpdated = t2], eventType, dataBytes)
       ELSE [order EXCEPT !.LastUpdated = t2]

\* Mutant of ApplyEvent: only the newest event is kept.
ApplyEventKeepsNewest(order, eventType, data, t1, t2) ==
    LET dataBytes == jsonMarshal(data)
        event == [EventType |-> eventType, Data |-> dataBytes, Timestamp |-> t1]
    IN ApplyKind([order EXCEPT !.Events = <<event>>, !.LastUpdated = t2],
                 eventType, dataBytes)

ApplyEvent(order, eventType, data, t1, t2) ==
    LET dataBytes == jsonMarshal(data)
        event == [EventType |-> eventType, Data |-> dataBytes, Timestamp |-> t1]
        appended == [order EXCEPT !.Events = Append(@, event), !.LastUpdated = t2]
    IN ApplyKind(appended, eventType, dataBytes)


(***************************************************************************)
(* json.Marshal(order): the snapshot pushed to a subscriber.  The fields   *)
(* tagged omitempty are left out when they hold the zero value.            *)
(***************************************************************************)
jsonMarshalOrder(order) ==
    [order_id |-> order.OrderID, product_id |-> order.ProductID,
     quantity |-> order.Quantity, status |-> order.Status,
     events |-> order.Events, last_updated |-> order.LastUpdated]
    @@ (IF order.TrackingNumber = "" THEN [x \in {} |-> 0]
        ELSE [tracking_number |-> order.TrackingNumber])
    @@ (IF order.PaymentAmount = 0 THEN [x \in {} |-> 0]
        ELSE [payment_amount |-> order.PaymentAmount])

(***************************************************************************)
(* State.                                                                  *)
(***************************************************************************)
VARIABLES
    orders,     \* sm.orders: order id -> OrderStatus (a map: partial)
    clients,    \* sm.clients: order id -> sequence of connections (partial)
    mu,         \* sm.mu: "unlocked" or "locked" (held exclusively)
    call,       \* the frame of the goroutine that holds sm.mu across a write
    conn,       \* each connection: "new", "ok" or "failed"
    inbox,      \* what each subscriber has received, in order
    now,        \* the wall clock (time.Now())
    lastCall,   \* the most recent StatusManager call and what it returned
    writes,     \* the WriteMessage calls made by the most recent call
    applied,    \* history: how many events were ever applied to an order id
    since,      \* history: applied[id] when id was last deleted
    sub,        \* history: what each connection subscribed to, and the
                \*          events applied to that order id since
    torn,       \* history: the inbox of each connection whose order was
                \*          deleted while it was registered, at that moment
    bulk,       \* the frame of the bulkDeleteOrders handler in progress
    products,   \* inventory service: inv.products, product id -> Product
    history,    \* inventory service: inv.history
    invCall,    \* inventory service: the most recent Inventory call
    streams,    \* the event log: topic -> the messages published, in order
    offsets,    \* the event log: reader -> how many messages it has read
    held,       \* the result a read returned to its HTTP handler
    ws          \* the browser's WebSocketClient

inventoryVars == <<products, history, invCall>>
brokerVars == <<streams, offsets>>

vars == <<orders, clients, mu, call, conn, inbox, now, lastCall, writes,
          applied, since, sub, torn, bulk, inventoryVars, brokerVars, held, ws>>

EmptyMap == [x \in {} |-> 0]
NoCall == [op |-> "none"]
NoSub == [orderID |-> "", snapshot |-> << >>, updates |-> 0]

\* The inventory service starts with three products (NewInventory).
NewInventory ==
    [p \in {"product-1", "product-2", "product-3"} |->
       CASE p = "product-1" -> [ID |-> p, Stock |-> 100, AlertLevel |-> 20]
         [] p = "product-2" -> [ID |-> p, Stock |-> 50, AlertLevel |-> 10]
         [] p = "product-3" -> [ID |-> p, Stock |-> 25, AlertLevel |-> 15]]

\* The readers of the event log: one per consumer group and topic
\* (kafka.NewReader in each service).
Readers ==
    {[group |-> "inventory-service", topic |-> "orders"],
     [group |-> "payment-service", topic |-> "inventory"],
     [group |-> "notification-service", topic |-> "payment"],
     [group |-> "shipping-service", topic |-> "payment"]}
    \cup {[group |-> "status-service", topic |-> t] : t \in Topics}

maxReconnectAttempts == 5
ReconnectDelay == 2000   \* milliseconds

\* The browser's WebSocketClient after its constructor: no socket yet.
\* attempts lists the timeouts set since a connection last opened, each
\* with the time of the close that set it; disconnected tells that
\* disconnect() has closed a socket.
NewWebSocketClient ==
    [ws |-> 0, reconnectAttempts |-> 0, sockets |-> << >>, timers |-> << >>,
     clock |-> 0, attempts |-> << >>, onErrorCalled |-> FALSE,
     onMessageCalled |-> FALSE, disconnected |-> FALSE]

Exists(m, k) == k \in DOMAIN m
MapPut(m, k, v) == [x \in DOMAIN m \cup {k} |-> IF x = k THEN v ELSE m[x]]
MapDelete(m, k) == [x \in DOMAIN m \ {k} |-> m[x]]
Range(s) == {s[i] : i \in 1..Len(s)}

Init ==
    /\ orders = EmptyMap
    /\ clients = EmptyMap
    /\ mu = "unlocked"
    /\ call = NoCall
    /\ conn = [c \in Conns |-> "new"]
    /\ inbox = [c \in Conns |-> << >>]
    /\ now = 1
    /\ lastCall = NoCall
    /\ writes = << >>
    /\ applied = [o \in AllOrderIDs |-> 0]
    /\ since = [o \in AllOrderIDs |-> 0]
    /\ sub = [c \in Conns |-> NoSub]
    /\ torn = EmptyMap
    /\ bulk = NoCall
    /\ products = NewInventory
    /\ history = << >>
    /\ invCall = NoCall
    /\ streams = [t \in Topics |-> << >>]
    /\ offsets = [r \in Readers |-> 0]
    /\ held = NoCall
    /\ ws = NewWebSocketClient

(***************************************************************************)
(* notifyClients, up to its first write: the frame it iterates with.       *)
(***************************************************************************)
\* Mutant of notifyClients: the snapshot goes to every registered connection.
RECURSIVE Flatten(_, _)
Flatten(m, S) ==
    IF S = {} THEN << >>
    ELSE LET k == CHOOSE x \in S : TRUE IN m[k] \o Flatten(m, S \ {k})

notifyClientsAll(orderID, order) ==
    IF ~Exists(clients, orderID) THEN NoCall
    ELSE [op |-> "notifyClients", orderID |-> orderID,
          message |-> jsonMarshalOrder(order),
          pending |-> clients[orderID]
                      \o Flatten(clients, DOMAIN clients \ {orderID}),
          activeClients |-> << >>]

\* Mutant of notifyClients: the message is the order as stored before the
\* event was applied.
notifyClientsStale(orderID, order) ==
    IF ~Exists(clients, orderID) THEN NoCall
    ELSE [op |-> "notifyClients", orderID |-> orderID,
          message |-> jsonMarshalOrder(IF Exists(orders, orderID)
                                       THEN orders[orderID] ELSE order),
          pending |-> clients[orderID], activeClients |-> << >>]

notifyClients(orderID, order) ==
    IF ~Exists(clients, orderID) THEN NoCall
    ELSE [op |-> "notifyClients", orderID |-> orderID,
          message |-> jsonMarshalOrder(order),
          pending |-> clients[orderID], activeClients |-> << >>]

(***************************************************************************)
(* UpdateOrderStatus: lock, look up or create, append, apply the table,    *)
(* then notifyClients with the lock still held (defer sm.mu.Unlock()).     *)
(***************************************************************************)
UpdateOrderStatus(orderID, eventType, data, t1, t2) ==
    /\ mu = "unlocked"
    /\ LET exists == Exists(orders, orderID)
           before == IF exists THEN orders[orderID] ELSE NewOrder(orderID)
           order  == ApplyEvent(before, eventType, data, t1, t2)
           frame  == notifyClients(orderID, order)
       IN /\ orders' = MapPut(orders, orderID, order)
          /\ call' = frame
          /\ mu' = IF frame = NoCall THEN "unlocked" ELSE "locked"
          /\ lastCall' = [op |-> "UpdateOrderStatus", orderID |-> orderID,
                          eventType |-> eventType, data |-> data,
                          exists |-> exists, before |-> before,
                          store |-> orders,
                          registered |-> IF Exists(clients, orderID)
                                         THEN Range(clients[orderID]) ELSE {}]
          /\ applied' = [applied EXCEPT ![orderID] = @ + 1]
    /\ now' = t2
    /\ writes' = << >>
    /\ sub' = [c \in Conns |->
                 IF sub[c].orderID = orderID
                 THEN [sub[c] EXCEPT !.updates = @ + 1] ELSE sub[c]]
    /\ UNCHANGED <<clients, conn, inbox, since, torn, bulk, inventoryVars,
                   streams, held, ws>>

\* One iteration of the loop of notifyClients: conn.WriteMessage.
notifyClientsWrite ==
    /\ call.op = "notifyClients"
    /\ call.pending # << >>
    /\ LET c == Head(call.pending) IN
       /\ IF conn[c] = "ok"
          THEN /\ inbox' = [inbox EXCEPT ![c] = Append(@, call.message)]
               /\ call' = [call EXCEPT !.pending = Tail(@),
                                       !.activeClients = Append(@, c)]
          ELSE /\ inbox' = inbox
               /\ call' = [call EXCEPT !.pending = Tail(@)]
       /\ writes' = Append(writes, [conn |-> c, message |-> call.message,
                                    ok |-> conn[c] = "ok"])
    /\ UNCHANGED <<orders, clients, mu, conn, now, lastCall, applied, since, sub, torn,
                   bulk, inventoryVars, brokerVars, held, ws>>

\* Mutant of notifyClientsReturn: the registry entry is left as it was.
notifyClientsReturnKeepsAll ==
    /\ call.op = "notifyClients"
    /\ call.pending = << >>
    /\ call' = NoCall
    /\ mu' = "unlocked"
    /\ UNCHANGED <<orders, clients, conn, inbox, now, lastCall, writes, applied, since,
                   sub, torn, bulk, inventoryVars, brokerVars, held, ws>>

\* The end of notifyClients and the deferred unlock of UpdateOrderStatus.
notifyClientsReturn ==
    /\ call.op = "notifyClients"
    /\ call.pending = << >>
    /\ clients' = [clients EXCEPT ![call.orderID] = call.activeClients]
    /\ call' = NoCall
    /\ mu' = "unlocked"
    /\ UNCHANGED <<orders, conn, inbox, now, lastCall, writes, applied, since, sub, torn,
                   bulk, inventoryVars, brokerVars, held, ws>>

(***************************************************************************)
(* websocketHandler: upgrade, then AddClient: lock, register, and write    *)
(* the current snapshot when the order exists, with the lock held.         *)
(***************************************************************************)
\* Mutant of AddClient: the connection is registered and no snapshot is sent.
AddClientNoSnapshot(orderID, c) ==
    /\ mu = "unlocked"
    /\ conn[c] = "new"
    /\ conn' = [conn EXCEPT ![c] = "ok"]
    /\ clients' = MapPut(clients, orderID,
                         Append(IF Exists(clients, orderID)
                                THEN clients[orderID] ELSE << >>, c))
    /\ lastCall' = [op |-> "AddClient", orderID |-> orderID, conn |-> c]
    /\ writes' = << >>
    /\ sub' = [sub EXCEPT ![c] =
                  [orderID |-> orderID,
                   snapshot |-> IF Exists(orders, orderID)
                                THEN <<jsonMarshalOrder(orders[orderID])>>
                                ELSE << >>,
                   updates |-> 0]]
    /\ UNCHANGED <<orders, mu, call, inbox, now, applied, since, torn,
                   bulk, inventoryVars, brokerVars, held, ws>>

\* Mutant of AddClient: an initial message is written also when the order
\* is not in the store.
AddClientAlwaysWrites(orderID, c) ==
    /\ mu = "unlocked"
    /\ conn[c] = "new"
    /\ conn' = [conn EXCEPT ![c] = "ok"]
    /\ clients' = MapPut(clients, orderID,
                         Append(IF Exists(clients, orderID)
                                THEN clients[orderID] ELSE << >>, c))
    /\ call' = [op |-> "AddClient", orderID |-> orderID, conn |-> c,
                message |-> jsonMarshalOrder(IF Exists(orders, orderID)
                                             THEN orders[orderID]
                                             ELSE NewOrder(orderID))]
    /\ mu' = "locked"
    /\ lastCall' = [op |-> "AddClient", orderID |-> orderID, conn |-> c]
    /\ writes' = << >>
    /\ sub' = [sub EXCEPT ![c] =
                  [orderID |-> orderID,
                   snapshot |-> IF Exists(orders, orderID)
                                THEN <<jsonMarshalOrder(orders[orderID])>>
                                ELSE << >>,
                   updates |-> 0]]
    /\ UNCHANGED <<orders, inbox, now, applied, since, torn, bulk,
                   inventoryVars, brokerVars, held, ws>>

AddClient(orderID, c) ==
    /\ mu = "unlocked"
    /\ conn[c] = "new"
    /\ conn' = [conn EXCEPT ![c] = "ok"]
    /\ clients' = MapPut(clients, orderID,
                         Append(IF Exists(clients, orderID)
                                THEN clients[orderID] ELSE << >>, c))
    /\ IF Exists(orders, orderID)
       THEN /\ call' = [op |-> "AddClient", orderID |-> orderID, conn |-> c,
                        message |-> jsonMarshalOrder(orders[orderID])]
            /\ mu' = "locked"
       ELSE /\ call' = NoCall
            /\ mu' = "unlocked"
    /\ lastCall' = [op |-> "AddClient", orderID |-> orderID, conn |-> c]
    /\ writes' = << >>
    /\ sub' = [sub EXCEPT ![c] =
                  [orderID |-> orderID,
                   snapshot |-> IF Exists(orders, orderID)
                                THEN <<jsonMarshalOrder(orders[orderID])>>
                                ELSE << >>,
                   updates |-> 0]]
    /\ UNCHANGED <<orders, inbox, now, applied, since, torn, bulk,
                   inventoryVars, brokerVars, held, ws>>

\* conn.WriteMessage in AddClient (its error is not looked at), and unlock.
AddClientWrite ==
    /\ call.op = "AddClient"
    /\ inbox' = IF conn[call.conn] = "ok"
                THEN [inbox EXCEPT ![call.conn] = Append(@, call.message)]
                ELSE inbox
    /\ writes' = Append(writes, [conn |-> call.conn, message |-> call.message,
                                 ok |-> conn[call.conn] = "ok"])
    /\ call' = NoCall
    /\ mu' = "unlocked"
    /\ UNCHANGED <<orders, clients, conn, now, lastCall, applied, since, sub, torn,
                   bulk, inventoryVars, brokerVars, held, ws>>

(***************************************************************************)
(* The transport of a subscriber goes away: the read loop of               *)
(* websocketHandler ends and the deferred conn.Close() runs, after which   *)
(* every write to it fails.  A transport that does not drain is a write    *)
(* step that is not taken yet: WriteMessage has no deadline.               *)
(***************************************************************************)
connClose(c) ==
    /\ conn[c] = "ok"
    /\ conn' = [conn EXCEPT ![c] = "failed"]
    /\ UNCHANGED <<orders, clients, mu, call, inbox, now, lastCall, writes,
                   applied, since, sub, torn,
                   bulk, inventoryVars, brokerVars, held, ws>>

(***************************************************************************)
(* GetOrderStatus (read lock) and DeleteOrder (write lock).                *)
(***************************************************************************)
Lookup(orderID) ==
    IF Exists(orders, orderID)
    THEN [found |-> TRUE, order |-> <<orders[orderID]>>]
    ELSE [found |-> FALSE, order |-> << >>]

GetOrderStatus(orderID) ==
    /\ mu = "unlocked"
    /\ lastCall' = [op |-> "GetOrderStatus", orderID |-> orderID,
                    result |-> Lookup(orderID)]
    /\ writes' = << >>
    /\ UNCHANGED <<orders, clients, mu, call, conn, inbox, now,
                   applied, since, sub, torn,
                   bulk, inventoryVars, brokerVars, held, ws>>

\* Mutant of DeleteOrder: the subscribers of the order are left registered.
DeleteOrderKeepsClients(orderID) ==
    /\ mu = "unlocked"
    /\ IF Exists(orders, orderID)
       THEN /\ orders' = MapDelete(orders, orderID)
            /\ lastCall' = [op |-> "DeleteOrder", orderID |-> orderID, ok |-> TRUE]
            /\ since' = [since EXCEPT ![orderID] = applied[orderID]]
            /\ torn' = IF Exists(clients, orderID)
                       THEN [c \in DOMAIN torn \cup Range(clients[orderID]) |-> inbox[c]]
                       ELSE torn
       ELSE /\ lastCall' = [op |-> "DeleteOrder", orderID |-> orderID, ok |-> FALSE]
            /\ UNCHANGED <<orders, since, torn>>
    /\ writes' = << >>
    /\ UNCHANGED <<clients, mu, call, conn, inbox, now, applied, sub, inventoryVars,
                   brokerVars, held, ws>>

\* Mutant of DeleteOrder: the entry is emptied of its events and kept.
DeleteOrderKeepsFields(orderID) ==
    /\ mu = "unlocked"
    /\ IF Exists(orders, orderID)
       THEN /\ orders' = [orders EXCEPT ![orderID] =
                             [@ EXCEPT !.Events = << >>, !.Status = "created"]]
            /\ clients' = MapDelete(clients, orderID)
            /\ lastCall' = [op |-> "DeleteOrder", orderID |-> orderID, ok |-> TRUE]
            /\ since' = [since EXCEPT ![orderID] = applied[orderID]]
            /\ torn' = IF Exists(clients, orderID)
                       THEN [c \in DOMAIN torn \cup Range(clients[orderID]) |-> inbox[c]]
                       ELSE torn
       ELSE /\ lastCall' = [op |-> "DeleteOrder", orderID |-> orderID, ok |-> FALSE]
            /\ UNCHANGED <<orders, clients, since, torn>>
    /\ writes' = << >>
    /\ UNCHANGED <<mu, call, conn, inbox, now, applied, sub, inventoryVars,
                   brokerVars, held, ws>>

\* Mutant of DeleteOrder: the registry entry goes even when no order does.
DeleteOrderSweepsClients(orderID) ==
    /\ mu = "unlocked"
    /\ clients' = MapDelete(clients, orderID)
    /\ IF Exists(orders, orderID)
       THEN /\ orders' = MapDelete(orders, orderID)
            /\ lastCall' = [op |-> "DeleteOrder", orderID |-> orderID, ok |-> TRUE]
            /\ since' = [since EXCEPT ![orderID] = applied[orderID]]
            /\ torn' = IF Exists(clients, orderID)
                       THEN [c \in DOMAIN torn \cup Range(clients[orderID]) |-> inbox[c]]
                       ELSE torn
       ELSE /\ lastCall' = [op |-> "DeleteOrder", orderID |-> orderID, ok |-> FALSE]
            /\ UNCHANGED <<orders, since, torn>>
    /\ writes' = << >>
    /\ UNCHANGED <<mu, call, conn, inbox, now, applied, sub, inventoryVars,
                   brokerVars, held, ws>>

DeleteOrder(orderID) ==
    /\ mu = "unlocked"
    /\ IF Exists(orders, orderID)
       THEN /\ orders' = MapDelete(orders, orderID)
            /\ clients' = MapDelete(clients, orderID)
            /\ lastCall' = [op |-> "DeleteOrder", orderID |-> orderID, ok |-> TRUE]
            /\ since' = [since EXCEPT ![orderID] = applied[orderID]]
            /\ torn' = IF Exists(clients, orderID)
                       THEN [c \in DOMAIN torn \cup Range(clients[orderID]) |-> inbox[c]]
                       ELSE torn
       ELSE /\ lastCall' = [op |-> "DeleteOrder", orderID |-> orderID, ok |-> FALSE]
            /\ UNCHANGED <<orders, clients, since, torn>>
    /\ writes' = << >>
    /\ UNCHANGED <<mu, call, conn, inbox, now, applied, sub, inventoryVars,
                   brokerVars, held, ws>>

(***************************************************************************)
(* Time of day.  A time.Time is a number of half seconds since the zero    *)
(* time 0001-01-01T00:00:00Z, so that an instant inside the last second of *)
(* a day can be told from 23:59:59.                                        *)
(***************************************************************************)
Second == 2
DayLen == 24 * 3600 * Second
EndOfDay == (23 * 3600 + 59 * 60 + 59) * Second

IsZero(t) == t = 0
Before(t, u) == t < u
After(t, u) == t > u

\* time.Parse("2006-01-02", s): the midnight (UTC) of the date, or the zero
\* time and an error.
ParseDate(s) ==
    CASE s = "0001-01-02" -> [err |-> FALSE, t |-> DayLen]
      [] s = "0001-01-03" -> [err |-> FALSE, t |-> 2 * DayLen]
      [] OTHER -> [err |-> TRUE, t |-> 0]

(***************************************************************************)
(* GetFilteredOrders (read lock): filter, sort.Slice by LastUpdated, newest *)
(* first, then offset and limit.  The map is ranged over in any order and  *)
(* sort.Slice is not stable: every list the comparison allows is possible. *)
(***************************************************************************)
OrderFilter(status, productID, dateFrom, dateTo, limit, offset) ==
    [Status |-> status, ProductID |-> productID, DateFrom |-> dateFrom,
     DateTo |-> dateTo, Limit |-> limit, Offset |-> offset]

\* sort.Slice(result, less) with less(i, j) = result[i].LastUpdated.After(..):
\* every arrangement in which no order comes before one updated later.
RECURSIVE Sorted(_)
Sorted(ids) ==
    IF ids = {} THEN {<< >>}
    ELSE UNION {{<<o>> \o s : s \in Sorted(ids \ {o})} :
                  o \in {x \in ids :
                          \A y \in ids : ~After(orders[y].LastUpdated,
                                                orders[x].LastUpdated)}}

SortSlice(ids) == {[i \in DOMAIN s |-> orders[s[i]]] : s \in Sorted(ids)}

Paginate(result, filter) ==
    LET cut == IF filter.Offset > 0
               THEN IF filter.Offset >= Len(result) THEN << >>
                    ELSE SubSeq(result, filter.Offset + 1, Len(result))
               ELSE result
    IN IF filter.Offset > 0 /\ filter.Offset >= Len(result) THEN << >>
       ELSE IF filter.Limit > 0 /\ filter.Limit < Len(cut)
            THEN SubSeq(cut, 1, filter.Limit)
            ELSE cut

GetFilteredOrders(filter) ==
    LET dateFrom == IF filter.DateFrom # ""
                    THEN ParseDate(filter.DateFrom).t ELSE 0
        dateTo   == IF filter.DateTo # ""
                    THEN ParseDate(filter.DateTo).t + EndOfDay ELSE 0
        kept == {o \in DOMAIN orders :
                   /\ ~(filter.Status # "" /\ orders[o].Status # filter.Status)
                   /\ ~(filter.ProductID # ""
                         /\ orders[o].ProductID # filter.ProductID)
                   /\ ~(~IsZero(dateFrom)
                         /\ Before(orders[o].LastUpdated, dateFrom))
                   /\ ~(~IsZero(dateTo)
                         /\ After(orders[o].LastUpdated, dateTo))}
    IN {Paginate(sorted, filter) : sorted \in SortSlice(kept)}

getFilteredOrders(filter) ==
    /\ mu = "unlocked"
    /\ \E result \in GetFilteredOrders(filter) :
         lastCall' = [op |-> "GetFilteredOrders", filter |-> filter,
                      result |-> result]
    /\ writes' = << >>
    /\ UNCHANGED <<orders, clients, mu, call, conn, inbox, now,
                   applied, since, sub, torn, bulk, inventoryVars, brokerVars, held, ws>>

(***************************************************************************)
(* SearchOrders (read lock) and its handler.  A Go string is the sequence  *)
(* of its characters; Chars spells the strings that occur in the model.    *)
(***************************************************************************)
Chars(s) ==
    CASE s = "" -> << >>
      [] s = "X" -> <<"X">>
      [] s = "Y" -> <<"Y">>
      [] s = "Z" -> <<"Z">>
      [] s = "x" -> <<"x">>
      [] s = "P1" -> <<"P", "1">>
      [] s = "p1" -> <<"p", "1">>
      [] s = "TRK1" -> <<"T", "R", "K", "1">>
      [] s = "rk" -> <<"r", "k">>
      [] s = "PAY" -> <<"P", "A", "Y">>
      [] s = "ed" -> <<"e", "d">>
      [] s = "zz" -> <<"z", "z">>
      [] s = "created" -> <<"c", "r", "e", "a", "t", "e", "d">>
      [] s = "shipped" -> <<"s", "h", "i", "p", "p", "e", "d">>
      [] s = "payment_completed" ->
           <<"p", "a", "y", "m", "e", "n", "t", "_",
             "c", "o", "m", "p", "l", "e", "t", "e", "d">>
      [] s = "notification_sent" ->
           <<"n", "o", "t", "i", "f", "i", "c", "a", "t", "i", "o", "n", "_",
             "s", "e", "n", "t">>
      [] s = "inventory_rejected" ->
           <<"i", "n", "v", "e", "n", "t", "o", "r", "y", "_",
             "r", "e", "j", "e", "c", "t", "e", "d">>

\* strings.ToLower, on the letters that occur.
LowerOf(c) ==
    CASE c = "A" -> "a" [] c = "K" -> "k" [] c = "P" -> "p" [] c = "R" -> "r"
      [] c = "T" -> "t" [] c = "X" -> "x" [] c = "Y" -> "y" [] c = "Z" -> "z"
      [] OTHER -> c

ToLower(chars) == [i \in DOMAIN chars |-> LowerOf(chars[i])]

\* strings.Contains
Contains(s, substr) ==
    \E i \in 0..(Len(s) - Len(substr)) : SubSeq(s, i + 1, i + Len(substr)) = substr

\* Mutant of SearchOrders: the comparison is case-sensitive.
SearchOrdersCaseSensitive(query) ==
    LET q == Chars(query)
        hit == {o \in DOMAIN orders :
                  \/ Contains(Chars(orders[o].OrderID), q)
                  \/ Contains(Chars(orders[o].ProductID), q)
                  \/ Contains(Chars(orders[o].Status), q)
                  \/ Contains(Chars(orders[o].TrackingNumber), q)}
    IN SortSlice(hit)

SearchOrders(query) ==
    LET queryLower == ToLower(Chars(query))
        hit == {o \in DOMAIN orders :
                  \/ Contains(ToLower(Chars(orders[o].OrderID)), queryLower)
                  \/ Contains(ToLower(Chars(orders[o].ProductID)), queryLower)
                  \/ Contains(ToLower(Chars(orders[o].Status)), queryLower)
                  \/ Contains(ToLower(Chars(orders[o].TrackingNumber)), queryLower)}
    IN SortSlice(hit)

searchOrders(query) ==
    /\ IF query = ""
       THEN lastCall' = [op |-> "searchOrders", query |-> query, code |-> 400]
       ELSE /\ mu = "unlocked"
            /\ \E result \in SearchOrders(query) :
                 lastCall' = [op |-> "searchOrders", query |-> query,
                              code |-> 200, result |-> result]
    /\ writes' = << >>
    /\ UNCHANGED <<orders, clients, mu, call, conn, inbox, now,
                   applied, since, sub, torn, bulk, inventoryVars, brokerVars, held, ws>>

\* The HTTP handlers of the point lookup and of the single deletion.
getOrderStatus(orderID) == GetOrderStatus(orderID)

deleteOrder(orderID) == DeleteOrder(orderID) /\ UNCHANGED bulk

\* The handler of the event-history query: GetOrderStatus, then the events.
getOrderEvents(orderID) ==
    /\ mu = "unlocked"
    /\ lastCall' = LET r == Lookup(orderID) IN
                   IF r.found
                   THEN [op |-> "getOrderEvents", orderID |-> orderID, code |-> 200,
                         events |-> r.order[1].Events,
                         count |-> Len(r.order[1].Events)]
                   ELSE [op |-> "getOrderEvents", orderID |-> orderID, code |-> 404]
    /\ writes' = << >>
    /\ UNCHANGED <<orders, clients, mu, call, conn, inbox, now,
                   applied, since, sub, torn, bulk, inventoryVars, brokerVars, held, ws>>

(***************************************************************************)
(* bulkDeleteOrders: the handler calls DeleteOrder for each identifier of  *)
(* the request in turn, taking the lock each time, and answers with the    *)
(* counts.  The frame keeps the answer until the next request.  History:   *)
(* removed, the orders that left the map in the calls of this request;     *)
(* appliedAt, the events applied before it started; quiet, whether none    *)
(* was applied during it; left, the listed identifiers that are in the     *)
(* map when the answer is made.                                            *)
(***************************************************************************)
bulkDeleteOrders(orderIDs) ==
    /\ bulk.op = "none" \/ bulk.op = "bulkDeleted"
    /\ bulk' = [op |-> "bulkDeleteOrders", orderIDs |-> orderIDs,
                pending |-> orderIDs, deleted |-> 0, notFound |-> 0,
                removed |-> 0, appliedAt |-> applied]
    /\ UNCHANGED <<orders, clients, mu, call, conn, inbox, now, lastCall, writes,
                   applied, since, sub, torn, inventoryVars, brokerVars, held, ws>>

\* Mutant of bulkDeleteNext: the loop ends at the first unknown identifier.
bulkDeleteNextOrAbort ==
    /\ bulk.op = "bulkDeleteOrders"
    /\ bulk.pending # << >>
    /\ DeleteOrder(Head(bulk.pending))
    /\ bulk' = [bulk EXCEPT
                  !.pending = IF lastCall'.ok THEN Tail(@) ELSE << >>,
                  !.deleted = IF lastCall'.ok THEN @ + 1 ELSE @,
                  !.notFound = IF lastCall'.ok THEN @ ELSE @ + 1,
                  !.removed = @ + Cardinality(DOMAIN orders)
                                - Cardinality(DOMAIN orders')]

bulkDeleteNext ==
    /\ bulk.op = "bulkDeleteOrders"
    /\ bulk.pending # << >>
    /\ DeleteOrder(Head(bulk.pending))
    /\ bulk' = [bulk EXCEPT
                  !.pending = Tail(@),
                  !.deleted = IF lastCall'.ok THEN @ + 1 ELSE @,
                  !.notFound = IF lastCall'.ok THEN @ ELSE @ + 1,
                  !.removed = @ + Cardinality(DOMAIN orders)
                                - Cardinality(DOMAIN orders')]

bulkDeleteRespond ==
    /\ bulk.op = "bulkDeleteOrders"
    /\ bulk.pending = << >>
    /\ bulk' = [op |-> "bulkDeleted", orderIDs |-> bulk.orderIDs,
                removed |-> bulk.removed,
                quiet |-> applied = bulk.appliedAt,
                left |-> Range(bulk.orderIDs) \cap DOMAIN orders,
                response |-> [deleted |-> bulk.deleted,
                              not_found |-> bulk.notFound,
                              total_requested |-> Len(bulk.orderIDs)]]
    /\ UNCHANGED <<orders, clients, mu, call, conn, inbox, now, lastCall, writes,
                   applied, since, sub, torn, inventoryVars, brokerVars, held, ws>>

(***************************************************************************)
(* consumeEvents: one iteration of the loop of the worker of a topic.  A   *)
(* message that does not decode, or has no string order_id or event_type,  *)
(* is dropped.                                                             *)
(***************************************************************************)
Message(orderID, eventType, data) ==
    [decodes |-> TRUE, order_id |-> orderID, event_type |-> eventType, data |-> data]

\* Mutant of consumeEvents: a message without a string event_type is applied.
consumeEventsAnyType(topic, msg, t1, t2) ==
    IF msg.decodes /\ IsStr(msg.order_id)
    THEN UpdateOrderStatus(msg.order_id.str,
                           IF IsStr(msg.event_type) THEN msg.event_type.str ELSE "",
                           msg.data, t1, t2)
    ELSE /\ lastCall' = [op |-> "consumeEvents", topic |-> topic, discarded |-> msg]
         /\ UNCHANGED <<orders, clients, mu, call, conn, inbox, now, writes,
                        applied, since, sub, torn, bulk, inventoryVars, streams, held, ws>>

consumeEvents(topic, msg, t1, t2) ==
    IF msg.decodes /\ IsStr(msg.order_id) /\ IsStr(msg.event_type)
    THEN UpdateOrderStatus(msg.order_id.str, msg.event_type.str, msg.data, t1, t2)
    ELSE /\ lastCall' = [op |-> "consumeEvents", topic |-> topic, discarded |-> msg]
         /\ UNCHANGED <<orders, clients, mu, call, conn, inbox, now, writes,
                        applied, since, sub, torn, bulk, inventoryVars, streams, held, ws>>

\* A reading of the clock is the previous one or later.
ClockReadings(t, max) == {u \in t..(t + 1) : u <= max}

\* The bound on the number of events applied in a run.
RECURSIVE SumOver(_, _)
SumOver(f, S) ==
    IF S = {} THEN 0
    ELSE LET x == CHOOSE y \in S : TRUE IN f[x] + SumOver(f, S \ {x})

CanApply(msg, max) ==
    (msg.decodes /\ IsStr(msg.order_id) /\ IsStr(msg.event_type))
        => SumOver(applied, AllOrderIDs) < max

Undecodable ==
    [decodes |-> FALSE, order_id |-> Absent, event_type |-> Absent, data |-> NoFields]

(***************************************************************************)
(* GetStatistics (read lock).  A float64 quotient a / b is kept as the     *)
(* pair of its operands: b = 0 is NaN when a = 0 and an infinity otherwise.*)
(***************************************************************************)
RecentLimit == 10

Quot(a, b) == [num |-> a, den |-> b]

Recognized(o) == orders[o].Status = "payment_completed" \/ orders[o].Status = "shipped"

\* Mutant of ProcessingTime: a duration is taken from the event before.
ProcessingTimeFromPrevious ==
    LET long(k) == {o \in DOMAIN orders : Len(orders[o].Events) >= k + 1}
        stages == UNION {1..(Len(orders[o].Events) - 1) : o \in DOMAIN orders}
    IN [k \in stages |->
          SumOver([o \in long(k) |-> orders[o].Events[k + 1].Timestamp
                                       - orders[o].Events[k].Timestamp],
                  long(k)) \div Cardinality(long(k))]

\* The average, per stage k, of Events[k+1].Timestamp - Events[1].Timestamp
\* over the orders that have more than k events (integer division).
ProcessingTime ==
    LET long(k) == {o \in DOMAIN orders : Len(orders[o].Events) >= k + 1}
        stages == UNION {1..(Len(orders[o].Events) - 1) : o \in DOMAIN orders}
    IN [k \in stages |->
          SumOver([o \in long(k) |-> orders[o].Events[k + 1].Timestamp
                                       - orders[o].Events[1].Timestamp],
                  long(k)) \div Cardinality(long(k))]

StatisticsOf(completed, recentOrders) ==
    LET ids == DOMAIN orders
        totalRevenue == SumOver([o \in ids |-> orders[o].PaymentAmount], completed)
        completedOrders == Cardinality(completed)
    IN [TotalOrders |-> Cardinality(ids),
        OrdersByStatus |->
          [st \in {orders[o].Status : o \in ids} |->
             Cardinality({o \in ids : orders[o].Status = st})],
        OrdersByProduct |->
          [pr \in {orders[o].ProductID : o \in ids} \ {""} |->
             Cardinality({o \in ids : orders[o].ProductID = pr})],
        RecentOrders |-> recentOrders,
        TotalRevenue |-> totalRevenue,
        AverageOrderValue |->
          IF Cardinality(ids) > 0 THEN Quot(totalRevenue, completedOrders)
          ELSE Quot(0, 1),
        CompletionRate |->
          IF Cardinality(ids) > 0 THEN Quot(completedOrders * 100, Cardinality(ids))
          ELSE Quot(0, 1),
        ProcessingTime |-> ProcessingTime]

\* The first RecentLimit orders the range over the map meets, then sorted.
RecentOrders ==
    UNION {SortSlice(met) :
             met \in {m \in SUBSET DOMAIN orders :
                        \/ Cardinality(m) = RecentLimit
                        \/ m = DOMAIN orders /\ Cardinality(m) < RecentLimit}}

\* Mutant of GetStatistics: the revenue is summed over every order.
GetStatisticsAllRevenue ==
    {StatisticsOf(DOMAIN orders, recent) : recent \in RecentOrders}

GetStatistics ==
    {StatisticsOf({o \in DOMAIN orders : Recognized(o)}, recent) :
       recent \in RecentOrders}

getStatistics ==
    /\ mu = "unlocked"
    /\ \E stats \in GetStatistics :
         lastCall' = [op |-> "GetStatistics", result |-> stats]
    /\ writes' = << >>
    /\ UNCHANGED <<orders, clients, mu, call, conn, inbox, now,
                   applied, since, sub, torn, bulk, inventoryVars, brokerVars, held, ws>>

(***************************************************************************)
(* GetOrdersByDateRange (read lock) and the daily report built on it.      *)
(***************************************************************************)
GetOrdersByDateRange(from, to) ==
    SortSlice({o \in DOMAIN orders :
                 After(orders[o].LastUpdated, from)
                 /\ Before(orders[o].LastUpdated, to)})

getDailyReport(dateStr) ==
    /\ IF ParseDate(dateStr).err
       THEN lastCall' = [op |-> "getDailyReport", date |-> dateStr, code |-> 400]
       ELSE /\ mu = "unlocked"
            /\ LET from == ParseDate(dateStr).t
                   to == ParseDate(dateStr).t + EndOfDay
               IN \E result \in GetOrdersByDateRange(from, to) :
                    LET idx == DOMAIN result
                        paid == {i \in idx : result[i].Status = "payment_completed"
                                             \/ result[i].Status = "shipped"}
                    IN lastCall' =
                         [op |-> "getDailyReport", date |-> dateStr, code |-> 200,
                          total_orders |-> Len(result),
                          orders_by_status |->
                            [st \in {result[i].Status : i \in idx} |->
                               Cardinality({i \in idx : result[i].Status = st})],
                          orders_by_product |->
                            [pr \in {result[i].ProductID : i \in idx} \ {""} |->
                               Cardinality({i \in idx : result[i].ProductID = pr})],
                          total_revenue |->
                            SumOver([i \in idx |-> result[i].PaymentAmount], paid),
                          orders |-> result]
    /\ writes' = << >>
    /\ UNCHANGED <<orders, clients, mu, call, conn, inbox, now,
                   applied, since, sub, torn, bulk, inventoryVars, brokerVars,
                   held, ws>>

(***************************************************************************)
(* The inventory service (services/inventory-service/main.go): the         *)
(* products and the history under inv.mu.  Each call is one step.          *)
(***************************************************************************)
HistoryCap == 1000

addHistory(productID, action, quantity, reason) ==
    LET appended == Append(history, [ProductID |-> productID, Action |-> action,
                                     Quantity |-> quantity, Reason |-> reason,
                                     Timestamp |-> now])
    IN IF Len(appended) > HistoryCap
       THEN SubSeq(appended, Len(appended) - HistoryCap + 1, Len(appended))
       ELSE appended

\* Mutant of ReserveStock: the stock has to exceed the quantity.
ReserveStockStrict(productID, quantity) ==
    /\ IF Exists(products, productID) /\ products[productID].Stock > quantity
       THEN /\ products' = [products EXCEPT ![productID].Stock = @ - quantity]
            /\ history' = addHistory(productID, "reserved", quantity,
                                      "Order reservation")
       ELSE UNCHANGED <<products, history>>
    /\ invCall' = [op |-> "ReserveStock", productID |-> productID,
                   quantity |-> quantity,
                   ok |-> Exists(products, productID)
                          /\ products[productID].Stock > quantity,
                   products |-> products, history |-> history]
    /\ UNCHANGED <<orders, clients, mu, call, conn, inbox, now, lastCall, writes,
                   applied, since, sub, torn, bulk, held, ws>>

ReserveStock(productID, quantity) ==
    /\ IF Exists(products, productID) /\ products[productID].Stock >= quantity
       THEN /\ products' = [products EXCEPT ![productID].Stock = @ - quantity]
            /\ history' = addHistory(productID, "reserved", quantity,
                                      "Order reservation")
            /\ invCall' = [op |-> "ReserveStock", productID |-> productID,
                           quantity |-> quantity, ok |-> TRUE,
                           products |-> products, history |-> history]
       ELSE /\ invCall' = [op |-> "ReserveStock", productID |-> productID,
                           quantity |-> quantity, ok |-> FALSE,
                           products |-> products, history |-> history]
            /\ UNCHANGED <<products, history>>
    /\ UNCHANGED <<orders, clients, mu, call, conn, inbox, now, lastCall, writes,
                   applied, since, sub, torn, bulk, held, ws>>

\* Mutant of UpdateStock: the stock is not tested after the addition.
UpdateStockUnchecked(productID, quantity, reason) ==
    /\ IF ~Exists(products, productID)
       THEN /\ invCall' = [op |-> "UpdateStock", productID |-> productID,
                           quantity |-> quantity, err |-> "not found"]
            /\ UNCHANGED <<products, history>>
       ELSE /\ products' = [products EXCEPT ![productID].Stock = @ + quantity]
            /\ history' = IF quantity < 0
                           THEN addHistory(productID, "decreased", -quantity, reason)
                           ELSE addHistory(productID, "increased", quantity, reason)
            /\ invCall' = [op |-> "UpdateStock", productID |-> productID,
                           quantity |-> quantity, err |-> ""]
    /\ UNCHANGED <<orders, clients, mu, call, conn, inbox, now, lastCall, writes,
                   applied, since, sub, torn, bulk, brokerVars, held, ws>>

UpdateStock(productID, quantity, reason) ==
    /\ IF ~Exists(products, productID)
       THEN /\ invCall' = [op |-> "UpdateStock", productID |-> productID,
                           quantity |-> quantity, err |-> "not found"]
            /\ UNCHANGED <<products, history>>
       ELSE IF products[productID].Stock + quantity < 0
       THEN /\ invCall' = [op |-> "UpdateStock", productID |-> productID,
                           quantity |-> quantity, err |-> "insufficient stock"]
            /\ UNCHANGED <<products, history>>
       ELSE /\ products' = [products EXCEPT ![productID].Stock = @ + quantity]
            /\ history' = IF quantity < 0
                           THEN addHistory(productID, "decreased", -quantity, reason)
                           ELSE addHistory(productID, "increased", quantity, reason)
            /\ invCall' = [op |-> "UpdateStock", productID |-> productID,
                           quantity |-> quantity, err |-> ""]
    /\ UNCHANGED <<orders, clients, mu, call, conn, inbox, now, lastCall, writes,
                   applied, since, sub, torn, bulk, brokerVars, held, ws>>

(***************************************************************************)
(* The event log and the stages of the pipeline.  A message of a stream is *)
(* the JSON object the status service decodes: order_id, event_type and    *)
(* the fields of the payload.  WriteMessages appends the message to the    *)
(* topic or returns an error, which the stages only log.                   *)
(***************************************************************************)
Reader(group, topic) == [group |-> group, topic |-> topic]

Unread(r) == offsets[r] < Len(streams[r.topic])

\* Mutant of ReadMessage: the newest message of the topic is returned.
ReadMessageNewest(r) == streams[r.topic][Len(streams[r.topic])]

\* reader.ReadMessage: the next message of the topic of the reader.
ReadMessage(r) == streams[r.topic][offsets[r] + 1]

WriteMessages(topic, msg, sent) ==
    IF sent THEN [streams EXCEPT ![topic] = Append(@, msg)] ELSE streams

\* json.Unmarshal of a message into the struct of a stage.
EventOf(msg) ==
    [OrderID   |-> IF IsStr(msg.order_id) THEN msg.order_id.str ELSE "",
     EventType |-> IF IsStr(msg.event_type) THEN msg.event_type.str ELSE "",
     ProductID |-> IF IsStr(msg.data.product_id) THEN msg.data.product_id.str ELSE "",
     Quantity  |-> IF IsNum(msg.data.quantity) THEN IntOf(msg.data.quantity.num) ELSE 0,
     Amount    |-> IF IsNum(msg.data.amount) THEN msg.data.amount.num ELSE 0]

\* The events of a topic.  An id that uuid.New() returns is the id of none.
Published(topic) == {EventOf(streams[topic][i]) : i \in 1..Len(streams[topic])}

\* Order service: POST /order with a product id and a quantity of at least 1.
createOrder(orderID, productID, quantity, sent) ==
    /\ productID # "" /\ quantity >= 1
    /\ orderID \notin {e.OrderID : e \in Published("orders")}
    /\ streams' = WriteMessages("orders",
                     Message(Str(orderID), Str("OrderCreated"),
                             Payload(Str(productID), Num(quantity * Scale),
                                     Absent, Absent)),
                     sent)
    /\ UNCHANGED <<orders, clients, mu, call, conn, inbox, now, lastCall, writes,
                   applied, since, sub, torn, bulk, inventoryVars, offsets,
                   held, ws>>

\* Inventory service: reserve, then publish the outcome.
processOrderEvent(event, sent) ==
    /\ ReserveStock(event.ProductID, event.Quantity)
    /\ streams' = WriteMessages("inventory",
                     Message(Str(event.OrderID),
                             Str(IF invCall'.ok THEN "InventoryConfirmed"
                                 ELSE "InventoryRejected"),
                             Payload(Str(event.ProductID),
                                     Num(event.Quantity * Scale), Absent, Absent)),
                     sent)

\* One iteration of the loop of consumeOrders.
consumeOrders(sent) ==
    LET r == Reader("inventory-service", "orders") IN
    /\ Unread(r)
    /\ processOrderEvent(EventOf(ReadMessage(r)), sent)
    /\ offsets' = [offsets EXCEPT ![r] = @ + 1]

\* Payment service: the price list, in hundredths.
productPrices ==
    [p \in {"product-1", "product-2", "product-3"} |->
       CASE p = "product-1" -> 2999 [] p = "product-2" -> 4999
         [] p = "product-3" -> 9999]

\* processPayment: the outcome is drawn at random (completed: rand < 0.95).
processPayment(orderID, productID, quantity, completed) ==
    LET price == IF productID \in DOMAIN productPrices
                 THEN productPrices[productID] ELSE 1999
    IN Message(Str(orderID),
               Str(IF completed THEN "PaymentCompleted" ELSE "PaymentFailed"),
               Payload(Str(productID), Num(quantity * Scale),
                       Num(price * quantity), Absent))

\* Mutant of processInventoryEvent: every inventory event is paid for.
processInventoryEventAny(event, completed, sent) ==
    streams' = WriteMessages("payment",
                  processPayment(event.OrderID, event.ProductID,
                                 event.Quantity, completed),
                  sent)

processInventoryEvent(event, completed, sent) ==
    IF event.EventType # "InventoryConfirmed"
    THEN UNCHANGED streams
    ELSE streams' = WriteMessages("payment",
                       processPayment(event.OrderID, event.ProductID,
                                      event.Quantity, completed),
                       sent)

\* One iteration of the loop of consumeInventoryEvents.
consumeInventoryEvents(completed, sent) ==
    LET r == Reader("payment-service", "inventory") IN
    /\ Unread(r)
    /\ processInventoryEvent(EventOf(ReadMessage(r)), completed, sent)
    /\ offsets' = [offsets EXCEPT ![r] = @ + 1]
    /\ UNCHANGED <<orders, clients, mu, call, conn, inbox, now, lastCall, writes,
                   applied, since, sub, torn, bulk, inventoryVars, held, ws>>

\* Notification service: a completed payment is notified.
processPaymentEventNotification(event, sent) ==
    IF event.EventType # "PaymentCompleted"
    THEN UNCHANGED streams
    ELSE streams' = WriteMessages("notification",
                       Message(Str(event.OrderID), Str("NotificationSent"), NoFields),
                       sent)

consumePaymentEventsNotification(sent) ==
    LET r == Reader("notification-service", "payment") IN
    /\ Unread(r)
    /\ processPaymentEventNotification(EventOf(ReadMessage(r)), sent)
    /\ offsets' = [offsets EXCEPT ![r] = @ + 1]
    /\ UNCHANGED <<orders, clients, mu, call, conn, inbox, now, lastCall, writes,
                   applied, since, sub, torn, bulk, inventoryVars, held, ws>>

\* Shipping service: a completed payment is shipped.
processPaymentEventShipping(event, sent) ==
    IF event.EventType # "PaymentCompleted"
    THEN UNCHANGED streams
    ELSE streams' = WriteMessages("shipping",
                       Message(Str(event.OrderID), Str("Shipped"),
                               Payload(Str(event.ProductID),
                                       Num(event.Quantity * Scale),
                                       Absent, Str("TRK1"))),
                       sent)

consumePaymentEventsShipping(sent) ==
    LET r == Reader("shipping-service", "payment") IN
    /\ Unread(r)
    /\ processPaymentEventShipping(EventOf(ReadMessage(r)), sent)
    /\ offsets' = [offsets EXCEPT ![r] = @ + 1]
    /\ UNCHANGED <<orders, clients, mu, call, conn, inbox, now, lastCall, writes,
                   applied, since, sub, torn, bulk, inventoryVars, held, ws>>

(***************************************************************************)
(* The status service on the event log: a producer appends a message to a  *)
(* topic, and the worker of a topic reads the messages of its topic one    *)
(* after the other.                                                        *)
(***************************************************************************)
produce(topic, msg) ==
    /\ streams' = WriteMessages(topic, msg, TRUE)
    /\ UNCHANGED <<orders, clients, mu, call, conn, inbox, now, lastCall, writes,
                   applied, since, sub, torn, bulk, inventoryVars, offsets,
                   held, ws>>

\* One iteration of the loop of consumeEvents, ReadMessage included.
consumeNext(topic, t1, t2) ==
    LET r == Reader("status-service", topic) IN
    /\ Unread(r)
    /\ consumeEvents(topic, ReadMessage(r), t1, t2)
    /\ offsets' = [offsets EXCEPT ![r] = @ + 1]

(***************************************************************************)
(* UpdateOrderStatus in two steps, both under sm.mu: the record is         *)
(* appended and LastUpdated set; then the switch on the kind runs and the  *)
(* subscribers are notified.  Between the two the order holds a record     *)
(* without its effects.                                                    *)
(***************************************************************************)
UpdateOrderStatusAppend(orderID, eventType, data, t1, t2) ==
    /\ mu = "unlocked"
    /\ LET exists == Exists(orders, orderID)
           before == IF exists THEN orders[orderID] ELSE NewOrder(orderID)
           dataBytes == jsonMarshal(data)
           event == [EventType |-> eventType, Data |-> dataBytes, Timestamp |-> t1]
       IN /\ orders' = MapPut(orders, orderID,
                               [before EXCEPT !.Events = Append(@, event),
                                              !.LastUpdated = t2])
          /\ call' = [op |-> "UpdateOrderStatus", orderID |-> orderID,
                      eventType |-> eventType, data |-> data,
                      exists |-> exists, before |-> before, store |-> orders]
    /\ mu' = "locked"
    /\ now' = t2
    /\ applied' = [applied EXCEPT ![orderID] = @ + 1]
    /\ UNCHANGED <<clients, conn, inbox, lastCall, writes, since, sub, torn, bulk,
                   inventoryVars, brokerVars, held, ws>>

UpdateOrderStatusSwitch ==
    /\ mu = "locked" /\ call.op = "UpdateOrderStatus"
    /\ LET orderID == call.orderID
           order == ApplyKind(orders[orderID], call.eventType, jsonMarshal(call.data))
           frame == notifyClients(orderID, order)
       IN /\ orders' = MapPut(orders, orderID, order)
          /\ call' = frame
          /\ mu' = IF frame = NoCall THEN "unlocked" ELSE "locked"
          /\ lastCall' = [op |-> "UpdateOrderStatus", orderID |-> orderID,
                          eventType |-> call.eventType, data |-> call.data,
                          exists |-> call.exists, before |-> call.before,
                          store |-> call.store,
                          registered |-> IF Exists(clients, orderID)
                                         THEN Range(clients[orderID]) ELSE {}]
          /\ sub' = [c \in Conns |->
                       IF sub[c].orderID = orderID
                       THEN [sub[c] EXCEPT !.updates = @ + 1] ELSE sub[c]]
    /\ writes' = << >>
    /\ UNCHANGED <<clients, conn, inbox, now, applied, since, torn, bulk,
                   inventoryVars, brokerVars, held, ws>>

(***************************************************************************)
(* UpdateOrderStatus statement by statement up to the append: the lock and *)
(* the lookup that stores a new OrderStatus without events when the id is  *)
(* not in the map, then the append of the record; the switch follows       *)
(* (UpdateOrderStatusSwitch).                                              *)
(***************************************************************************)
UpdateOrderStatusLookup(orderID, eventType, data) ==
    /\ mu = "unlocked"
    /\ LET exists == Exists(orders, orderID)
           before == IF exists THEN orders[orderID] ELSE NewOrder(orderID)
       IN /\ orders' = MapPut(orders, orderID, before)
          /\ call' = [op |-> "UpdateOrderStatusLookup", orderID |-> orderID,
                      eventType |-> eventType, data |-> data,
                      exists |-> exists, before |-> before, store |-> orders]
    /\ mu' = "locked"
    /\ UNCHANGED <<clients, conn, inbox, now, lastCall, writes, applied, since, sub,
                   torn, bulk, inventoryVars, brokerVars, held, ws>>

UpdateOrderStatusRecord(t1, t2) ==
    /\ mu = "locked" /\ call.op = "UpdateOrderStatusLookup"
    /\ LET event == [EventType |-> call.eventType,
                     Data |-> jsonMarshal(call.data), Timestamp |-> t1]
       IN orders' = [orders EXCEPT ![call.orderID] =
                        [@ EXCEPT !.Events = Append(@, event),
                                  !.LastUpdated = t2]]
    /\ call' = [call EXCEPT !.op = "UpdateOrderStatus"]
    /\ now' = t2
    /\ applied' = [applied EXCEPT ![call.orderID] = @ + 1]
    /\ UNCHANGED <<clients, mu, conn, inbox, lastCall, writes, since, sub, torn, bulk,
                   inventoryVars, brokerVars, held, ws>>

(***************************************************************************)
(* The reads, as their HTTP handlers see them.  A read returns pointers:   *)
(* to copies it made under the read lock (orderCopy := *order, with a copy *)
(* of Events), which no later write reaches.  The handler holds what was   *)
(* returned until it has serialized it.                                    *)
(***************************************************************************)
Copy(order) == [copy |-> order]
Shared(orderID) == [ref |-> orderID]

\* What the holder of a pointer sees through it now.
Deref(ptr) ==
    IF "copy" \in DOMAIN ptr THEN ptr.copy
    ELSE IF Exists(orders, ptr.ref) THEN orders[ptr.ref]
    ELSE [OrderID |-> ptr.ref]

\* Mutant of GetAllOrders: the map of the store's own pointers is returned.
GetAllOrdersShared == [k \in DOMAIN orders |-> Shared(k)]

GetAllOrders == [k \in DOMAIN orders |-> Copy(orders[k])]

\* The pointers a read returns, for each read of the interface.
ReadResults(req) ==
    CASE req.op = "GetOrderStatus" ->
           {[o \in DOMAIN orders \cap {req.orderID} |-> Copy(orders[o])]}
      [] req.op = "GetAllOrders" -> {GetAllOrders}
      [] req.op = "GetFilteredOrders" ->
           {[i \in DOMAIN l |-> Copy(l[i])] : l \in GetFilteredOrders(req.filter)}
      [] req.op = "SearchOrders" ->
           {[i \in DOMAIN l |-> Copy(l[i])] : l \in SearchOrders(req.query)}
      [] req.op = "GetStatistics" ->
           {[i \in DOMAIN st.RecentOrders |-> Copy(st.RecentOrders[i])] :
              st \in GetStatistics}

\* Mutant of readSnapshot: the read does not wait for the lock.
readSnapshotNoLock(req) ==
    /\ \E result \in ReadResults(req) :
         held' = [op |-> req.op, req |-> req, result |-> result,
                  returned |-> [k \in DOMAIN result |-> Deref(result[k])],
                  store |-> orders]
    /\ UNCHANGED <<orders, clients, mu, call, conn, inbox, now, lastCall, writes,
                   applied, since, sub, torn, bulk, inventoryVars, brokerVars, ws>>

\* A read under sm.mu.RLock(), up to its return to the handler.
readSnapshot(req) ==
    /\ mu = "unlocked"
    /\ \E result \in ReadResults(req) :
         held' = [op |-> req.op, req |-> req, result |-> result,
                  returned |-> [k \in DOMAIN result |-> Deref(result[k])],
                  store |-> orders]
    /\ UNCHANGED <<orders, clients, mu, call, conn, inbox, now, lastCall, writes,
                   applied, since, sub, torn, bulk, inventoryVars, brokerVars, ws>>

(***************************************************************************)
(* The service with its subscribers: the workers, the WebSocket handlers   *)
(* and deletions, over two order ids.  The clock is coarse here: every     *)
(* reading is the same.                                                    *)
(***************************************************************************)
StreamMsgs(topic) ==
    CASE topic = "orders" ->
           {Message(Str(o), Str("OrderCreated"),
                    Payload(Str("P1"), Num(2 * Scale), Absent, Absent)) : o \in OrderIDs}
      [] topic = "payment" ->
           {Message(Str(o), Str("PaymentCompleted"),
                    Payload(Absent, Absent, Num(1000), Absent)) : o \in OrderIDs}
      [] OTHER -> {}

Next ==
    \/ \E topic \in Topics :
         \E msg \in StreamMsgs(topic) :
           CanApply(msg, MaxApplied) /\ consumeEvents(topic, msg, now, now)
                 /\ UNCHANGED offsets
    \/ notifyClientsWrite
    \/ notifyClientsReturn
    \/ \E o \in OrderIDs, c \in Conns : AddClient(o, c)
    \/ AddClientWrite
    \/ \E c \in Conns : connClose(c)
    \/ \E o \in OrderIDs : deleteOrder(o)

Spec == Init /\ [][Next]_vars

(***************************************************************************)
(* The state store alone: an order id that receives every event kind of    *)
(* the table and one kind outside it, with and without the fields the      *)
(* table extracts, a second id that receives one kind, point lookups and   *)
(* deletions, and a clock that advances.                                   *)
(***************************************************************************)
StoreIDs == {"X"}
StoreOtherIDs == {"Y"}

StoreMsgs(topic) ==
    LET M(k, d) == {Message(Str(o), Str(k), d) : o \in StoreIDs} IN
    CASE topic = "orders" ->
           M("OrderCreated", Payload(Str("P1"), Num(2 * Scale), Absent, Absent))
           \cup M("OrderCreated", Payload(Num(7 * Scale), Str("2"), Absent, Absent))
           \cup M("OrderCancelled",
                  Payload(Str("P9"), Num(9 * Scale), Num(999), Str("TRK9")))
      [] topic = "inventory" ->
           M("InventoryConfirmed", NoFields) \cup M("InventoryRejected", NoFields)
           \cup {Message(Str(o), Str("InventoryConfirmed"), NoFields) :
                    o \in StoreOtherIDs}
      [] topic = "payment" ->
           M("PaymentCompleted", Payload(Absent, Absent, Num(5998), Absent))
           \cup M("PaymentFailed", NoFields)
      [] topic = "notification" -> M("NotificationSent", NoFields)
      [] topic = "shipping" ->
           M("Shipped", Payload(Absent, Absent, Absent, Str("TRKABC123")))

NextStore ==
    \/ \E topic \in Topics :
         \E msg \in StoreMsgs(topic) :
           \E t1 \in ClockReadings(now, MaxTime) :
             \E t2 \in ClockReadings(t1, MaxTime) :
               CanApply(msg, MaxStoreEvents) /\ consumeEvents(topic, msg, t1, t2)
                 /\ UNCHANGED offsets
    \/ \E o \in StoreIDs \cup StoreOtherIDs : getOrderStatus(o)
    \/ \E o \in StoreIDs \cup StoreOtherIDs : deleteOrder(o)

SpecStore == Init /\ [][NextStore]_vars

(***************************************************************************)
(* Scenario A of the specification: the events of one order's pipeline,    *)
(* in any order.                                                           *)
(***************************************************************************)
ScenarioMsgs(topic) ==
    CASE topic = "orders" ->
           {Message(Str("X"), Str("OrderCreated"),
                    Payload(Str("P1"), Num(2 * Scale), Absent, Absent))}
      [] topic = "inventory" ->
           {Message(Str("X"), Str("InventoryConfirmed"), NoFields)}
      [] topic = "payment" ->
           {Message(Str("X"), Str("PaymentCompleted"),
                    Payload(Absent, Absent, Num(5998), Absent))}
      [] topic = "shipping" ->
           {Message(Str("X"), Str("Shipped"),
                    Payload(Absent, Absent, Absent, Str("TRKABC123")))}
      [] OTHER -> {}

NextScenario ==
    \E topic \in Topics :
      \E msg \in ScenarioMsgs(topic) :
        \E t1 \in ClockReadings(now, MaxTime) :
          \E t2 \in ClockReadings(t1, MaxTime) :
            CanApply(msg, MaxScenarioEvents) /\ consumeEvents(topic, msg, t1, t2)
                 /\ UNCHANGED offsets

SpecScenario == Init /\ [][NextScenario]_vars

(***************************************************************************)
(* The fields of one order: payloads that carry an empty string or a zero  *)
(* where the table extracts a field, a quantity below one, and a kind that *)
(* extracts nothing and carries every field.                               *)
(***************************************************************************)
FieldMsgs(topic) ==
    LET M(k, d) == {Message(Str(o), Str(k), d) : o \in StoreIDs} IN
    CASE topic = "orders" ->
           M("OrderCreated", Payload(Str("P1"), Num(2 * Scale), Absent, Absent))
           \cup M("OrderCreated", Payload(Str(""), Num(0), Absent, Absent))
           \cup M("OrderCreated", Payload(Absent, Num(Scale \div 2), Absent, Absent))
      [] topic = "payment" ->
           M("PaymentCompleted", Payload(Absent, Absent, Num(1000), Absent))
           \cup M("PaymentCompleted", Payload(Absent, Absent, Num(0), Absent))
      [] topic = "notification" ->
           M("NotificationSent",
             Payload(Str(""), Num(0), Num(0), Str("")))
      [] topic = "shipping" ->
           M("Shipped", Payload(Absent, Absent, Absent, Str("TRKABC123")))
           \cup M("Shipped", Payload(Absent, Absent, Absent, Str("")))
      [] OTHER -> {}

NextFields ==
    \E topic \in Topics :
      \E msg \in FieldMsgs(topic) :
        CanApply(msg, MaxFieldEvents) /\ consumeEvents(topic, msg, now, now)
                 /\ UNCHANGED offsets

SpecFields == Init /\ [][NextFields]_vars

(***************************************************************************)
(* Ingestion of one order id with one subscriber, from streams that also   *)
(* carry messages that do not decode or have no string order_id or         *)
(* event_type.                                                             *)
(***************************************************************************)
IngestIDs == {"X"}
IngestConns == {"c1"}

Malformed ==
    {Undecodable,
     Message(Absent, Str("OrderCreated"),
             Payload(Str("P1"), Num(2 * Scale), Absent, Absent)),
     Message(Num(7 * Scale), Str("OrderCreated"),
             Payload(Str("P1"), Num(2 * Scale), Absent, Absent)),
     Message(Str("X"), Absent, Payload(Absent, Absent, Num(1000), Absent)),
     Message(Str("X"), Num(Scale), Payload(Absent, Absent, Num(1000), Absent))}

IngestMsgs(topic) ==
    LET M(k, d) == {Message(Str(o), Str(k), d) : o \in IngestIDs} IN
    CASE topic = "orders" ->
           M("OrderCreated", Payload(Str("P1"), Num(2 * Scale), Absent, Absent))
      [] topic = "inventory" -> Malformed
      [] topic = "payment" ->
           M("PaymentCompleted", Payload(Absent, Absent, Num(1000), Absent))
      [] OTHER -> {}

NextIngest ==
    \/ \E topic \in Topics :
         \E msg \in IngestMsgs(topic) :
           CanApply(msg, MaxIngestEvents) /\ consumeEvents(topic, msg, now, now)
                 /\ UNCHANGED offsets
    \/ notifyClientsWrite
    \/ notifyClientsReturn
    \/ \E o \in IngestIDs, c \in IngestConns : AddClient(o, c)
    \/ AddClientWrite

SpecIngest == Init /\ [][NextIngest]_vars

(***************************************************************************)
(* The inventory alone: reservations and stock updates of two of its       *)
(* products and of a product it does not have, with quantities below, at   *)
(* and above the stock, zero and negative.                                 *)
(***************************************************************************)
InventoryProducts == {"product-1", "product-3", "product-9"}
InventoryQuantities == {-5, 0, 10, 25, 26, 101}

NextInventory ==
    \/ \E p \in InventoryProducts, q \in InventoryQuantities :
         Len(history) < MaxHistory /\ ReserveStock(p, q)
           /\ UNCHANGED brokerVars
    \/ \E p \in InventoryProducts, q \in InventoryQuantities :
         Len(history) < MaxHistory /\ UpdateStock(p, q, "Manual adjustment")

SpecInventory == Init /\ [][NextInventory]_vars

(***************************************************************************)
(* The whole interface of the service over two order ids and one           *)
(* subscriber: ingestion, pushes, subscriptions, the point lookup, the     *)
(* event-history query, the single and the bulk deletion.                  *)
(***************************************************************************)
ApiConns == {"c1"}

ApiMsgs(topic) ==
    CASE topic = "orders" ->
           {Message(Str(o), Str("OrderCreated"),
                    Payload(Str("P1"), Num(2 * Scale), Absent, Absent)) : o \in OrderIDs}
      [] topic = "payment" ->
           {Message(Str("X"), Str("PaymentCompleted"),
                    Payload(Absent, Absent, Num(1000), Absent))}
      [] OTHER -> {}

\* The identifier lists of the bulk deletion requests.
BulkRequests == {<< >>, <<"X">>, <<"Y", "X">>, <<"X", "X">>}

NextApi ==
    \/ \E topic \in Topics :
         \E msg \in ApiMsgs(topic) :
           CanApply(msg, MaxApiEvents) /\ consumeEvents(topic, msg, now, now)
                 /\ UNCHANGED offsets
    \/ notifyClientsWrite
    \/ notifyClientsReturn
    \/ \E o \in OrderIDs, c \in ApiConns : AddClient(o, c)
    \/ AddClientWrite
    \/ \E o \in OrderIDs : getOrderStatus(o)
    \/ \E o \in OrderIDs : getOrderEvents(o)
    \/ \E o \in OrderIDs : deleteOrder(o)
    \/ \E orderIDs \in BulkRequests : bulkDeleteOrders(orderIDs)
    \/ bulkDeleteNext
    \/ bulkDeleteRespond

SpecApi == Init /\ [][NextApi]_vars

(***************************************************************************)
(* The filtered list over a store of up to three orders: the events give   *)
(* the orders different statuses and products, and the clock is read at    *)
(* 23:59:59 of the first day, half a second later and at the midnight that *)
(* follows.                                                                *)
(***************************************************************************)
FilterMsgs(topic) ==
    CASE topic = "orders" ->
           {Message(Str("X"), Str("OrderCreated"),
                    Payload(Str("P1"), Num(2 * Scale), Absent, Absent))}
      [] topic = "inventory" ->
           {Message(Str("Z"), Str("InventoryRejected"), NoFields)}
      [] topic = "payment" ->
           {Message(Str("X"), Str("PaymentCompleted"),
                    Payload(Absent, Absent, Num(1000), Absent)),
            Message(Str("Y"), Str("PaymentCompleted"),
                    Payload(Absent, Absent, Num(2000), Absent))}
      [] OTHER -> {}

FilterInstants == {DayLen + EndOfDay, DayLen + EndOfDay + 1, 2 * DayLen}

FilterDates == {"", "0001-01-02", "0001-01-03", "2024-13-45"}

Filters ==
    {OrderFilter(st, pr, "", "", 0, 0) :
       st \in {"", "payment_completed"}, pr \in {"", "P1"}}
    \cup {OrderFilter("", "", from, to, 0, 0) :
            from \in FilterDates, to \in FilterDates}
    \cup {OrderFilter("", "", "", "", limit, offset) :
            limit \in {-1, 1, 2}, offset \in {-1, 1, 3}}
    \cup {OrderFilter("payment_completed", "", "0001-01-02", "0001-01-03", 1, 1)}

NextFilter ==
    \/ \E topic \in Topics :
         \E msg \in FilterMsgs(topic) :
           \E t \in {u \in FilterInstants : u >= now} :
             CanApply(msg, MaxQueryEvents) /\ consumeEvents(topic, msg, t, t)
                 /\ UNCHANGED offsets
    \/ \E filter \in Filters : getFilteredOrders(filter)

SpecFilter == Init /\ [][NextFilter]_vars

(***************************************************************************)
(* Search and statistics over a store of up to three orders, with a        *)
(* tracking number and an amount on an order whose status is not a paid    *)
(* one.                                                                    *)
(***************************************************************************)
SearchMsgs(topic) ==
    CASE topic = "orders" ->
           {Message(Str("X"), Str("OrderCreated"),
                    Payload(Str("P1"), Num(2 * Scale), Absent, Absent))}
      [] topic = "inventory" ->
           {Message(Str("Z"), Str("InventoryRejected"), NoFields)}
      [] topic = "payment" ->
           {Message(Str("X"), Str("PaymentCompleted"),
                    Payload(Absent, Absent, Num(1000), Absent)),
            Message(Str("Y"), Str("PaymentCompleted"),
                    Payload(Absent, Absent, Num(2000), Absent))}
      [] topic = "shipping" ->
           {Message(Str("Y"), Str("Shipped"),
                    Payload(Absent, Absent, Absent, Str("TRK1")))}
      [] OTHER -> {}

SearchInstants == {DayLen, DayLen + Second}

Queries == {"", "x", "p1", "rk", "PAY", "zz"}

NextSearch ==
    \/ \E topic \in Topics :
         \E msg \in SearchMsgs(topic) :
           \E t \in {u \in SearchInstants : u >= now} :
             CanApply(msg, MaxQueryEvents) /\ consumeEvents(topic, msg, t, t)
                 /\ UNCHANGED offsets
    \/ \E query \in Queries : searchOrders(query)
    \/ getStatistics

SpecSearch == Init /\ [][NextSearch]_vars

(***************************************************************************)
(* The pipeline: orders of a product in stock and of a product the         *)
(* inventory does not have, with quantities that the stock covers once but *)
(* not twice, flowing through the inventory, payment, notification and     *)
(* shipping stages.  Each reader meets each message of its topic once.     *)
(***************************************************************************)
PipelineIDs == {"X", "Y"}
PipelineProducts == {"product-3", "product-9"}
PipelineQuantities == {10, 20}

NextPipeline ==
    \/ \E o \in PipelineIDs, p \in PipelineProducts, q \in PipelineQuantities :
         \E sent \in BOOLEAN : createOrder(o, p, q, sent)
    \/ \E sent \in BOOLEAN : consumeOrders(sent)
    \/ \E completed \in BOOLEAN, sent \in BOOLEAN :
         consumeInventoryEvents(completed, sent)
    \/ \E sent \in BOOLEAN : consumePaymentEventsNotification(sent)
    \/ \E sent \in BOOLEAN : consumePaymentEventsShipping(sent)

SpecPipeline == Init /\ [][NextPipeline]_vars

(***************************************************************************)
(* The workers of the status service on two topics: the payment topic      *)
(* carries two messages of one order that differ in their amount, and a    *)
(* message of another order.  The clock advances.                          *)
(***************************************************************************)
LogMsgs(topic) ==
    CASE topic = "orders" ->
           {Message(Str("X"), Str("OrderCreated"),
                    Payload(Str("P1"), Num(2 * Scale), Absent, Absent))}
      [] topic = "payment" ->
           {Message(Str("X"), Str("PaymentCompleted"),
                    Payload(Absent, Absent, Num(1000), Absent)),
            Message(Str("X"), Str("PaymentCompleted"),
                    Payload(Absent, Absent, Num(2000), Absent)),
            Message(Str("Y"), Str("PaymentCompleted"),
                    Payload(Absent, Absent, Num(1000), Absent))}
      [] OTHER -> {}

NextStreams ==
    \/ \E topic \in Topics :
         \E msg \in LogMsgs(topic) :
           /\ SumOver([t \in Topics |-> Len(streams[t])], Topics) < MaxStreamEvents
           /\ produce(topic, msg)
    \/ \E topic \in Topics :
         \E t \in ClockReadings(now, MaxTime) : consumeNext(topic, t, t)

SpecStreams == Init /\ [][NextStreams]_vars

(***************************************************************************)
(* Reads against writes in progress: two orders, events that change the    *)
(* status and the amount, every read of the interface.                     *)
(***************************************************************************)
ReadMsgs ==
    {Message(Str("X"), Str("OrderCreated"),
             Payload(Str("P1"), Num(2 * Scale), Absent, Absent)),
     Message(Str("X"), Str("PaymentCompleted"),
             Payload(Absent, Absent, Num(1000), Absent)),
     Message(Str("Y"), Str("PaymentCompleted"),
             Payload(Absent, Absent, Num(2000), Absent))}

ReadRequests ==
    {[op |-> "GetOrderStatus", orderID |-> "X"],
     [op |-> "GetAllOrders"],
     [op |-> "GetFilteredOrders",
      filter |-> OrderFilter("payment_completed", "", "", "", 0, 0)],
     [op |-> "SearchOrders", query |-> "x"],
     [op |-> "GetStatistics"]}

NextReads ==
    \/ \E msg \in ReadMsgs :
         /\ CanApply(msg, MaxReadEvents)
         /\ UpdateOrderStatusAppend(msg.order_id.str, msg.event_type.str,
                                    msg.data, now, now)
    \/ UpdateOrderStatusSwitch
    \/ \E req \in ReadRequests : readSnapshot(req)

SpecReads == Init /\ [][NextReads]_vars

(***************************************************************************)
(* The daily report over the store of the filtered list: orders updated at *)
(* the midnight that begins the first day, a second later and at 23:59:59  *)
(* of that day.                                                            *)
(***************************************************************************)
ReportInstants == {DayLen, DayLen + Second, DayLen + EndOfDay}

NextReport ==
    \/ \E topic \in Topics :
         \E msg \in FilterMsgs(topic) :
           \E t \in {u \in ReportInstants : u >= now} :
             CanApply(msg, MaxQueryEvents) /\ consumeEvents(topic, msg, t, t)
                 /\ UNCHANGED offsets
    \/ \E dateStr \in FilterDates \ {""} : getDailyReport(dateStr)

SpecReport == Init /\ [][NextReport]_vars

(***************************************************************************)
(* A store of more orders than the statistics list as recent: the order    *)
(* service creates the orders one after the other, the worker of the       *)
(* orders topic applies them at instants that all differ.                  *)
(***************************************************************************)
NextRecent ==
    \/ /\ Len(streams["orders"]) < MaxRecentOrders
       /\ createOrder(RecentIDs[Len(streams["orders"]) + 1], "P1", 1, TRUE)
    \/ consumeNext("orders", now + 1, now + 1)
    \/ getStatistics

SpecRecent == Init /\ [][NextRecent]_vars

(***************************************************************************)
(* The inventory service on an orders topic that can carry the same        *)
(* OrderCreated message more than once.                                    *)
(***************************************************************************)
ReplayMsgs ==
    {Message(Str("X"), Str("OrderCreated"),
             Payload(Str("product-3"), Num(10 * Scale), Absent, Absent)),
     Message(Str("Y"), Str("OrderCreated"),
             Payload(Str("product-1"), Num(5 * Scale), Absent, Absent))}

NextReplay ==
    \/ \E msg \in ReplayMsgs :
         Len(streams["orders"]) < MaxReplayEvents /\ produce("orders", msg)
    \/ \E sent \in BOOLEAN : consumeOrders(sent)

SpecReplay == Init /\ [][NextReplay]_vars

(***************************************************************************)
(* The statistics over two orders with up to five events between them, at  *)
(* instants whose differences do not divide evenly.                        *)
(***************************************************************************)
LatencyMsgs(topic) ==
    CASE topic = "orders" ->
           {Message(Str("X"), Str("OrderCreated"),
                    Payload(Str("P1"), Num(2 * Scale), Absent, Absent))}
      [] topic = "payment" ->
           {Message(Str("X"), Str("PaymentCompleted"),
                    Payload(Absent, Absent, Num(1000), Absent)),
            Message(Str("Y"), Str("PaymentCompleted"),
                    Payload(Absent, Absent, Num(2000), Absent))}
      [] OTHER -> {}

LatencyInstants == {1, 2, 5}

NextLatency ==
    \/ \E topic \in Topics :
         \E msg \in LatencyMsgs(topic) :
           \E t \in {u \in LatencyInstants : u >= now} :
             CanApply(msg, MaxLatencyEvents) /\ consumeEvents(topic, msg, t, t)
                 /\ UNCHANGED offsets
    \/ getStatistics

SpecLatency == Init /\ [][NextLatency]_vars

(***************************************************************************)
(* The browser's WebSocketClient (unnamed/part_016, lines 40-105).  The    *)
(* record ws holds the object's fields, the sockets it has created with    *)
(* their readyState, the timeouts it has set and not yet run, and the      *)
(* browser's clock in milliseconds.  Every socket the client creates       *)
(* carries the four handlers connect() assigns to it, also after           *)
(* disconnect() has dropped the reference to it.                           *)
(***************************************************************************)
clientOthers == <<orders, clients, mu, call, conn, inbox, now, lastCall, writes,
                  applied, since, sub, torn, bulk, inventoryVars, brokerVars,
                  held>>

RemoveAt(s, i) == [k \in 1..(Len(s) - 1) |-> IF k < i THEN s[k] ELSE s[k + 1]]

\* connect(): new WebSocket(wsUrl) either throws, and onError is called, or
\* returns a socket that is kept in this.ws with its handlers.
connect(c, thrown) ==
    IF thrown
    THEN [c EXCEPT !.onErrorCalled = TRUE]
    ELSE [c EXCEPT !.sockets = Append(@, "CONNECTING"),
                   !.ws = Len(c.sockets) + 1]

\* attemptReconnect() without the test against maxReconnectAttempts.
attemptReconnectUnbounded(c) ==
    [c EXCEPT !.reconnectAttempts = @ + 1,
              !.timers = Append(@, c.clock + ReconnectDelay * (c.reconnectAttempts + 1)),
              !.attempts = Append(@, [at |-> c.clock,
                                      due |-> c.clock + ReconnectDelay * (c.reconnectAttempts + 1)])]

\* attemptReconnect(): below the limit, count the attempt and set a timeout
\* of 2000 * reconnectAttempts ms that calls connect().
attemptReconnect(c) ==
    IF c.reconnectAttempts < maxReconnectAttempts
    THEN [c EXCEPT !.reconnectAttempts = @ + 1,
                   !.timers = Append(@, c.clock + ReconnectDelay * (c.reconnectAttempts + 1)),
                   !.attempts = Append(@, [at |-> c.clock,
                                           due |-> c.clock + ReconnectDelay * (c.reconnectAttempts + 1)])]
    ELSE c

\* The page calls connect() on the client it has just constructed.
callConnect(thrown) ==
    /\ ws.sockets = << >>
    /\ ws' = connect(ws, thrown)
    /\ UNCHANGED clientOthers

\* A timeout set by attemptReconnect() runs, not before it is due.
runTimeout(i, thrown) ==
    /\ i \in DOMAIN ws.timers
    /\ ws.timers[i] <= ws.clock
    /\ Len(ws.sockets) < MaxSockets
    /\ ws' = connect([ws EXCEPT !.timers = RemoveAt(@, i)], thrown)
    /\ UNCHANGED clientOthers

\* ws.onopen: the connection of socket s is established.
onopen(s) ==
    /\ s \in DOMAIN ws.sockets
    /\ ws.sockets[s] = "CONNECTING"
    /\ ws' = [ws EXCEPT !.sockets[s] = "OPEN",
                        !.reconnectAttempts = 0,
                        !.attempts = << >>]
    /\ UNCHANGED clientOthers

\* ws.onmessage: a frame arrives on socket s; onMessage is called when it
\* parses.
onmessage(s, parsed) ==
    /\ s \in DOMAIN ws.sockets
    /\ ws.sockets[s] = "OPEN"
    /\ ws' = [ws EXCEPT !.onMessageCalled = @ \/ parsed]
    /\ UNCHANGED clientOthers

\* ws.onerror: socket s reports an error; onError is called.
onerror(s) ==
    /\ s \in DOMAIN ws.sockets
    /\ ws.sockets[s] \in {"CONNECTING", "OPEN"}
    /\ ws' = [ws EXCEPT !.onErrorCalled = TRUE]
    /\ UNCHANGED clientOthers

\* ws.onclose: socket s is closed, by either side or by a failure to connect.
onclose(s) ==
    /\ s \in DOMAIN ws.sockets
    /\ ws.sockets[s] # "CLOSED"
    /\ ws' = attemptReconnect([ws EXCEPT !.sockets[s] = "CLOSED"])
    /\ UNCHANGED clientOthers

\* disconnect(): close the socket in this.ws, if any, and drop it.
disconnect ==
    /\ ws' = IF ws.ws # 0
             THEN [ws EXCEPT !.sockets[ws.ws] =
                                 IF @ = "CLOSED" THEN @ ELSE "CLOSING",
                             !.ws = 0,
                             !.disconnected = TRUE]
             ELSE ws
    /\ UNCHANGED clientOthers

\* Time passes in the browser.
Tick ==
    /\ ws.clock < MaxClock * ReconnectDelay
    /\ ws' = [ws EXCEPT !.clock = @ + ReconnectDelay]
    /\ UNCHANGED clientOthers

(***************************************************************************)
(* The client alone: the page connects and disconnects, sockets open,      *)
(* fail and close, timeouts run.                                           *)
(***************************************************************************)
NextClient ==
    \/ \E thrown \in BOOLEAN : callConnect(thrown)
    \/ \E i \in 1..maxReconnectAttempts, thrown \in BOOLEAN : runTimeout(i, thrown)
    \/ \E s \in 1..MaxSockets : onopen(s)
    \/ \E s \in 1..MaxSockets, parsed \in BOOLEAN : onmessage(s, parsed)
    \/ \E s \in 1..MaxSockets : onerror(s)
    \/ \E s \in 1..MaxSockets : onclose(s)
    \/ disconnect
    \/ Tick

SpecClient == Init /\ [][NextClient]_vars

(***************************************************************************)
(* The statistics after the payment, notification and shipping workers     *)
(* have applied their events in every order.                               *)
(***************************************************************************)
RevenueMsgs(topic) ==
    CASE topic = "payment" ->
           {Message(Str("X"), Str("PaymentCompleted"),
                    Payload(Absent, Absent, Num(1000), Absent)),
            Message(Str("Y"), Str("PaymentCompleted"),
                    Payload(Absent, Absent, Num(2000), Absent))}
      [] topic = "notification" ->
           {Message(Str(o), Str("NotificationSent"), NoFields) : o \in OrderIDs}
      [] topic = "shipping" ->
           {Message(Str(o), Str("Shipped"),
                    Payload(Absent, Absent, Absent, Str("TRK1"))) : o \in OrderIDs}
      [] OTHER -> {}

NextRevenue ==
    \/ \E topic \in Topics :
         \E msg \in RevenueMsgs(topic) :
           CanApply(msg, MaxRevenueEvents) /\ consumeEvents(topic, msg, now, now)
               /\ UNCHANGED offsets
    \/ getStatistics

SpecRevenue == Init /\ [][NextRevenue]_vars

(***************************************************************************)
(* The store written statement by statement, with deletions and every      *)
(* read of the interface in between.                                       *)
(***************************************************************************)
NextWellFormed ==
    \/ \E msg \in ReadMsgs :
         /\ CanApply(msg, MaxWellFormedEvents)
         /\ UpdateOrderStatusLookup(msg.order_id.str, msg.event_type.str, msg.data)
    \/ UpdateOrderStatusRecord(now, now)
    \/ UpdateOrderStatusSwitch
    \/ \E o \in OrderIDs : deleteOrder(o)
    \/ \E req \in ReadRequests : readSnapshot(req)

SpecWellFormed == Init /\ [][NextWellFormed]_vars

(***************************************************************************)
(* Helpers of the properties.                                              *)
(***************************************************************************)
Last(s) == s[Len(s)]
Kinds(events) == [i \in 1..Len(events) |-> events[i].EventType]
Registered(c) == \E o \in DOMAIN clients : c \in Range(clients[o])
WrittenTo == {writes[i].conn : i \in 1..Len(writes)}

\* A goroutine is about to write to a subscriber (or is blocked writing).
WritePending ==
    \/ call.op = "notifyClients" /\ call.pending # << >>
    \/ call.op = "AddClient"

\* The status the table gives for the last event of a history whose kind is
\* in the table; "created" when there is none.
RECURSIVE LastTableStatus(_)
LastTableStatus(events) ==
    IF events = << >> THEN "created"
    ELSE IF Last(events).EventType \in TableKinds
         THEN TransitionTable[Last(events).EventType]
         ELSE LastTableStatus(SubSeq(events, 1, Len(events) - 1))

(***************************************************************************)
(* C1 (as stated): the status of every order is the transition-table       *)
(* status of the kind of the last event applied to it.                     *)
(***************************************************************************)
C1_StatusOfLastKind ==
    \A o \in DOMAIN orders :
        /\ Last(orders[o].Events).EventType \in TableKinds
        /\ orders[o].Status = TransitionTable[Last(orders[o].Events).EventType]

(***************************************************************************)
(* C1 (amended): the status of every order is the transition-table status  *)
(* of the last applied event whose kind is in the table ("created" when no *)
(* such event was applied), whatever the status was before and whatever    *)
(* the earlier events were.                                                *)
(***************************************************************************)
C1_StatusOfLastTableKind ==
    \A o \in DOMAIN orders :
        /\ orders[o].Status = LastTableStatus(orders[o].Events)
        /\ Last(orders[o].Events).EventType \in TableKinds
             => orders[o].Status = TransitionTable[Last(orders[o].Events).EventType]

C1_Witness ==
    /\ Exists(orders, "X")
    /\ Kinds(orders["X"].Events) = <<"Shipped", "InventoryConfirmed", "OrderCancelled">>
    /\ orders["X"].Status = "inventory_confirmed"

(***************************************************************************)
(* C2 (as stated): the length of `events` of every order is the number of  *)
(* events ever applied to its order id.                                    *)
(***************************************************************************)
C2_LengthIsEverApplied ==
    \A o \in DOMAIN orders : Len(orders[o].Events) = applied[o]

(***************************************************************************)
(* C2 (amended): the length of `events` of every order is the number of    *)
(* events applied to its order id since the id was last deleted (kinds     *)
(* outside the table included), and each application appends one record    *)
(* and leaves the records before it where and as they were.                *)
(***************************************************************************)
C2_AppendOnly ==
    /\ \A o \in DOMAIN orders : Len(orders[o].Events) = applied[o] - since[o]
    /\ \A o \in OrderIDs : o \notin DOMAIN orders => since[o] = applied[o]
    /\ lastCall.op = "UpdateOrderStatus" =>
         /\ Exists(orders, lastCall.orderID)
         /\ LET events == orders[lastCall.orderID].Events IN
            /\ Len(events) = Len(lastCall.before.Events) + 1
            /\ SubSeq(events, 1, Len(events) - 1) = lastCall.before.Events
            /\ Last(events).EventType = lastCall.eventType
            /\ jsonUnmarshal(Last(events).Data) = lastCall.data

C2_Witness ==
    /\ Exists(orders, "X")
    /\ since["X"] = 1
    /\ Kinds(orders["X"].Events) = <<"PaymentCompleted", "OrderCancelled">>

(***************************************************************************)
(* C8: an event applied to an order id that is not in the store creates    *)
(* the entry, with one record in `events`, an empty product_id and a zero  *)
(* quantity unless the event is a creation event, and the status the table *)
(* gives for the kind ("created" for a kind outside the table); a          *)
(* PaymentCompleted carrying amount a gives status payment_completed, an   *)
(* empty product_id and payment_amount a.                                  *)
(***************************************************************************)
C8_Materialisation ==
    (lastCall.op = "UpdateOrderStatus" /\ ~lastCall.exists) =>
        /\ DOMAIN orders = DOMAIN lastCall.store \cup {lastCall.orderID}
        /\ lastCall.orderID \notin DOMAIN lastCall.store
        /\ \A o \in DOMAIN lastCall.store : orders[o] = lastCall.store[o]
        /\ LET order == orders[lastCall.orderID]
               kind == lastCall.eventType
           IN /\ order.OrderID = lastCall.orderID
              /\ Len(order.Events) = 1
              /\ order.Events[1].EventType = kind
              /\ kind # "OrderCreated" => order.ProductID = "" /\ order.Quantity = 0
              /\ order.Status = IF kind \in TableKinds
                                THEN TransitionTable[kind] ELSE "created"
              /\ (kind = "PaymentCompleted" /\ IsNum(lastCall.data.amount)) =>
                    /\ order.Status = "payment_completed"
                    /\ order.ProductID = ""
                    /\ order.PaymentAmount = lastCall.data.amount.num

C8_Witness ==
    /\ lastCall.op = "UpdateOrderStatus"
    /\ ~lastCall.exists
    /\ lastCall.eventType = "PaymentCompleted"
    /\ orders["X"].PaymentAmount = 5998
    /\ since["X"] > 0
    /\ Exists(lastCall.store, "Y")

(***************************************************************************)
(* C9: an event of a kind outside the transition table is appended to      *)
(* `events` and sets last_updated to the time of its application, and      *)
(* leaves status, product_id, quantity, tracking_number and payment_amount *)
(* as they were, whatever its payload carries.                             *)
(***************************************************************************)
C9_UnknownKindFrame ==
    (lastCall.op = "UpdateOrderStatus" /\ lastCall.eventType \notin TableKinds) =>
        LET order == orders[lastCall.orderID]
            before == lastCall.before
        IN /\ Len(order.Events) = Len(before.Events) + 1
           /\ Last(order.Events).EventType = lastCall.eventType
           /\ order.LastUpdated = now
           /\ order.LastUpdated >= Last(order.Events).Timestamp
           /\ Last(order.Events).Timestamp >= before.LastUpdated
           /\ order.Status = before.Status
           /\ order.ProductID = before.ProductID
           /\ order.Quantity = before.Quantity
           /\ order.TrackingNumber = before.TrackingNumber
           /\ order.PaymentAmount = before.PaymentAmount

C9_Witness ==
    /\ lastCall.op = "UpdateOrderStatus"
    /\ lastCall.eventType = "OrderCancelled"
    /\ lastCall.exists
    /\ lastCall.before.Status = "shipped"
    /\ lastCall.before.TrackingNumber = "TRKABC123"
    /\ lastCall.before.LastUpdated < orders["X"].LastUpdated
    /\ IsStr(lastCall.data.tracking_number)

(***************************************************************************)
(* C10: creation(product P, quantity q), inventory-confirmed,              *)
(* payment-completed(amount a) and shipped(tracking t), applied in that    *)
(* order to a fresh order, give status shipped, product_id P, quantity q,  *)
(* payment_amount a, tracking_number t and `events` of length 4.           *)
(***************************************************************************)
ScenarioA ==
    <<"OrderCreated", "InventoryConfirmed", "PaymentCompleted", "Shipped">>

C10_ScenarioA ==
    (/\ lastCall.op = "UpdateOrderStatus"
     /\ applied[lastCall.orderID] - since[lastCall.orderID] = Len(ScenarioA)
     /\ Kinds(orders[lastCall.orderID].Events) = ScenarioA) =>
        LET order == orders[lastCall.orderID]
            created == jsonUnmarshal(order.Events[1].Data)
            paid == jsonUnmarshal(order.Events[3].Data)
            shipped == jsonUnmarshal(order.Events[4].Data)
        IN /\ order.Status = "shipped"
           /\ Len(order.Events) = 4
           /\ IsStr(created.product_id) => order.ProductID = created.product_id.str
           /\ (IsNum(created.quantity) /\ created.quantity.num % Scale = 0)
                => order.Quantity * Scale = created.quantity.num
           /\ IsNum(paid.amount) => order.PaymentAmount = paid.amount.num
           /\ IsStr(shipped.tracking_number)
                => order.TrackingNumber = shipped.tracking_number.str

C10_Witness ==
    /\ Exists(orders, "X")
    /\ Kinds(orders["X"].Events) = ScenarioA
    /\ orders["X"].Status = "shipped"
    /\ orders["X"].ProductID = "P1"
    /\ orders["X"].Quantity = 2
    /\ orders["X"].PaymentAmount = 5998
    /\ orders["X"].TrackingNumber = "TRKABC123"

(***************************************************************************)
(* C3 (as stated): once no call is in progress, every subscriber that      *)
(* connected through AddClient and whose connection is open has received   *)
(* one initial snapshot and one push per UpdateOrderStatus applied to its  *)
(* order id since.                                                         *)
(***************************************************************************)
C3_SnapshotThenEveryPush ==
    \A c \in Conns :
        (sub[c].orderID # "" /\ conn[c] = "ok" /\ mu = "unlocked") =>
            Len(inbox[c]) = 1 + sub[c].updates

(***************************************************************************)
(* C3 (amended): a subscriber that connects through AddClient receives the *)
(* snapshot of its order exactly once, before any mutation push, when the  *)
(* order id is in the store at that moment, and no initial message when it *)
(* is not; from then on, for as long as its connection is open and its     *)
(* order is not deleted, it receives exactly one push per                  *)
(* UpdateOrderStatus applied to that order id, in the order of the         *)
(* applications.                                                           *)
(***************************************************************************)
C3_SnapshotThenPushWhileRegistered ==
    \A c \in Conns :
        (sub[c].orderID # "" /\ conn[c] = "ok" /\ mu = "unlocked"
         /\ c \notin DOMAIN torn) =>
            LET first == sub[c].snapshot
                base == IF first = << >> THEN 0 ELSE Len(first[1].events)
            IN /\ Len(inbox[c]) = Len(first) + sub[c].updates
               /\ SubSeq(inbox[c], 1, Len(first)) = first
               /\ c \in Range(clients[sub[c].orderID])
               /\ \A i \in 1..Len(inbox[c]) :
                     /\ inbox[c][i].order_id = sub[c].orderID
                     /\ Len(inbox[c][i].events) = base + i - Len(first)

C3_Witness ==
    /\ mu = "unlocked"
    /\ conn["c1"] = "ok"
    /\ sub["c1"].orderID = "X"
    /\ Exists(clients, "X") /\ "c1" \in Range(clients["X"])
    /\ Len(sub["c1"].snapshot) = 1
    /\ sub["c1"].updates = 2
    /\ Len(inbox["c1"]) = 3

(***************************************************************************)
(* C4 (as stated): while a write to a subscriber is pending, the lock of   *)
(* the state store is not held: an event for another order id can be       *)
(* applied and a point lookup can be served.                               *)
(***************************************************************************)
C4_NoPushUnderLock ==
    WritePending =>
        \A o \in OrderIDs \ {call.orderID} :
            /\ ENABLED GetOrderStatus(o)
            /\ ENABLED UpdateOrderStatus(o, "OrderCreated", NoFields, now, now)

(***************************************************************************)
(* C5: an UpdateOrderStatus for an order id writes the post-mutation state *)
(* of that order once to every connection registered for that id when it   *)
(* was called, and to no other connection.                                 *)
(***************************************************************************)
C5_FanOut ==
    lastCall.op = "UpdateOrderStatus" =>
        LET order == orders[lastCall.orderID] IN
        /\ \A i \in 1..Len(writes) :
             /\ writes[i].conn \in lastCall.registered
             /\ sub[writes[i].conn].orderID = lastCall.orderID
             /\ writes[i].message.order_id = lastCall.orderID
             /\ writes[i].message.status = order.Status
             /\ writes[i].message.events = order.Events
             /\ writes[i].message.product_id = order.ProductID
             /\ writes[i].message.quantity = order.Quantity
             /\ writes[i].message.last_updated = order.LastUpdated
             /\ order.PaymentAmount # 0 =>
                  writes[i].message.payment_amount = order.PaymentAmount
             /\ \A j \in 1..Len(writes) : writes[i].conn = writes[j].conn => i = j
        /\ call = NoCall => WrittenTo = lastCall.registered

C5_Witness ==
    /\ lastCall.op = "UpdateOrderStatus"
    /\ lastCall.orderID = "X"
    /\ lastCall.exists
    /\ call = NoCall
    /\ lastCall.registered = {"c1"}
    /\ WrittenTo = {"c1"}
    /\ Exists(clients, "Y") /\ clients["Y"] = <<"c2">>
    /\ conn["c2"] = "ok"

(***************************************************************************)
(* C6 (as stated): once a call has completed, every connection a write of  *)
(* that call failed on is out of the registry, and every connection a      *)
(* write of it succeeded on is still registered.                           *)
(***************************************************************************)
C6_FailedPushRemoves ==
    mu = "unlocked" =>
        \A i \in 1..Len(writes) :
            IF writes[i].ok THEN Registered(writes[i].conn)
            ELSE ~Registered(writes[i].conn)

(***************************************************************************)
(* C7: a DeleteOrder of an order in the store removes the entry and the    *)
(* subscriber set of its id together; a point lookup of the id then        *)
(* returns not-found, and a connection that was registered for the id is   *)
(* never registered again and receives nothing more, whatever is applied   *)
(* later, to that id included.                                             *)
(***************************************************************************)
C7_AtomicDelete ==
    /\ (lastCall.op = "DeleteOrder" /\ lastCall.ok) =>
          /\ ~Exists(orders, lastCall.orderID)
          /\ ~Exists(clients, lastCall.orderID)
          /\ ~Lookup(lastCall.orderID).found
    /\ \A c \in DOMAIN torn : inbox[c] = torn[c] /\ ~Registered(c)

C7_Witness ==
    /\ "c1" \in DOMAIN torn
    /\ torn["c1"] # << >>
    /\ sub["c1"].orderID = "X"
    /\ conn["c1"] = "ok"
    /\ lastCall.op = "UpdateOrderStatus"
    /\ lastCall.orderID = "X"
    /\ ~lastCall.exists


\* C11 (as stated): once product_id, quantity, tracking_number or
\* payment_amount of an order is non-empty / non-zero, no event applied to
\* it resets the field to empty / zero.
C11_NeverCleared ==
    (lastCall.op = "UpdateOrderStatus" /\ lastCall.exists
        /\ Exists(orders, lastCall.orderID)) =>
      LET before == lastCall.before
          after  == orders[lastCall.orderID]
      IN /\ before.ProductID # "" => after.ProductID # ""
         /\ before.Quantity # 0 => after.Quantity # 0
         /\ before.TrackingNumber # "" => after.TrackingNumber # ""
         /\ before.PaymentAmount # 0 => after.PaymentAmount # 0

\* A message that consumeEvents does not hand to UpdateOrderStatus.
IsMalformed(msg) ==
    ~msg.decodes \/ ~IsStr(msg.order_id) \/ ~IsStr(msg.event_type)

\* C12: a message that does not decode, or has no string order_id or no
\* string event_type, is discarded: consuming it creates no order, changes
\* no order, writes to no subscriber and takes no lock, and after it the
\* worker can consume the next message of its stream.
C12_Discarded ==
    /\ \A topic \in Topics :
         \A msg \in IngestMsgs(topic) :
           IsMalformed(msg) =>
             /\ ENABLED consumeEvents(topic, msg, now, now)
             /\ ~ENABLED (/\ consumeEvents(topic, msg, now, now)
                          /\ <<orders, clients, inbox, writes, call, mu>>'
                               # <<orders, clients, inbox, writes, call, mu>>)
    /\ (lastCall.op = "consumeEvents" /\ mu = "unlocked") =>
         \A topic \in Topics :
           \A msg \in IngestMsgs(topic) :
             CanApply(msg, MaxIngestEvents) =>
               ENABLED consumeEvents(topic, msg, now, now)

C12_Witness ==
    /\ lastCall.op = "consumeEvents"
    /\ lastCall.discarded.decodes
    /\ IsStr(lastCall.discarded.order_id)
    /\ Exists(orders, lastCall.discarded.order_id.str)
    /\ Exists(clients, lastCall.discarded.order_id.str)
    /\ clients[lastCall.discarded.order_id.str] # << >>

\* The lists of the orders of a set, each once, newest first.
NewestFirst(ids) ==
    {l \in [1..Cardinality(ids) -> {orders[o] : o \in ids}] :
       /\ {l[i].OrderID : i \in DOMAIN l} = ids
       /\ \A i \in DOMAIN l : i > 1 => l[i - 1].LastUpdated >= l[i].LastUpdated}

\* The slice [offset, offset + limit) of a list; no limit when limit <= 0.
SliceOf(l, offset, limit) ==
    LET first == IF offset > 0 THEN offset + 1 ELSE 1
        last  == IF limit > 0 /\ first + limit - 1 < Len(l)
                 THEN first + limit - 1 ELSE Len(l)
    IN IF first > Len(l) THEN << >> ELSE SubSeq(l, first, last)

\* C13 (as stated): for a filter with well-formed dates, GetFilteredOrders
\* returns the slice [offset, offset + limit) of a newest-first list of
\* exactly the orders that have the status and the product asked for and
\* were last updated from the midnight of date_from to the end of the day
\* date_to.
C13_FilterCorrect ==
    (/\ lastCall.op = "GetFilteredOrders"
     /\ lastCall.filter.DateFrom # "" => ~ParseDate(lastCall.filter.DateFrom).err
     /\ lastCall.filter.DateTo # "" => ~ParseDate(lastCall.filter.DateTo).err) =>
      LET f == lastCall.filter
          matching ==
            {o \in DOMAIN orders :
               /\ f.Status # "" => orders[o].Status = f.Status
               /\ f.ProductID # "" => orders[o].ProductID = f.ProductID
               /\ f.DateFrom # "" =>
                    orders[o].LastUpdated >= ParseDate(f.DateFrom).t
               /\ f.DateTo # "" =>
                    orders[o].LastUpdated < ParseDate(f.DateTo).t + DayLen}
      IN \E l \in NewestFirst(matching) :
           lastCall.result = SliceOf(l, f.Offset, f.Limit)

\* C14 (as stated): GetFilteredOrders with a date_from or a date_to that does
\* not parse returns what the same call with that field empty returns.
C14_MalformedDateIsNoFilter ==
    lastCall.op = "GetFilteredOrders" =>
      LET f == lastCall.filter
          g == [f EXCEPT !.DateFrom = IF ParseDate(@).err THEN "" ELSE @,
                         !.DateTo = IF ParseDate(@).err THEN "" ELSE @]
      IN lastCall.result \in GetFilteredOrders(g)

\* q occurs in s, letter case ignored.
HasIgnoringCase(s, q) ==
    \E i \in 0..(Len(s) - Len(q)) :
      \A k \in 1..Len(q) : LowerOf(s[i + k]) = LowerOf(q[k])

RoundTenths(q) == (2 * 10 * q.num + q.den) \div (2 * q.den)

\* The store of the statistics example of the specification.
ScenarioStatistics ==
    /\ DOMAIN orders = {"X", "Y", "Z"}
    /\ orders["X"].Status = "payment_completed"
    /\ orders["X"].PaymentAmount = 10 * Scale
    /\ orders["Y"].Status = "payment_completed"
    /\ orders["Y"].PaymentAmount = 20 * Scale
    /\ orders["Z"].Status = "inventory_rejected"

\* C16: GetStatistics reports the number of orders, the sum of
\* payment_amount over the orders whose status is payment_completed or
\* shipped, that sum divided by the number of those orders, and the number
\* of those orders divided by the number of orders, times 100; two
\* payment_completed orders of 10.00 and 20.00 and one inventory_rejected
\* order give 3, 30.00, 15.00 and 66.7.
C16_StatisticsFormulae ==
    lastCall.op = "GetStatistics" =>
      LET st == lastCall.result
          paid == {o \in DOMAIN orders :
                     orders[o].Status \in {"payment_completed", "shipped"}}
          n == Cardinality(paid)
      IN /\ st.TotalOrders = Cardinality(DOMAIN orders)
         /\ st.TotalRevenue =
              SumOver([o \in paid |-> orders[o].PaymentAmount], paid)
         /\ n > 0 =>
              /\ st.AverageOrderValue.den # 0
              /\ st.AverageOrderValue.num * n
                   = st.TotalRevenue * st.AverageOrderValue.den
         /\ st.TotalOrders > 0 =>
              /\ st.CompletionRate.den # 0
              /\ st.CompletionRate.num * st.TotalOrders
                   = n * 100 * st.CompletionRate.den
         /\ ScenarioStatistics =>
              /\ st.TotalOrders = 3
              /\ st.TotalRevenue = 30 * Scale
              /\ st.AverageOrderValue.num
                   = 15 * Scale * st.AverageOrderValue.den
              /\ RoundTenths(st.CompletionRate) = 667

C16_Witness ==
    /\ lastCall.op = "GetStatistics"
    /\ ScenarioStatistics

\* C17: for an order id that is not in the store, the point lookup, the
\* event-history query and the single deletion each give the not-found
\* outcome and leave the order map and the subscriber registry as they were.
C17_NotFound ==
    \A o \in OrderIDs :
      (o \notin DOMAIN orders /\ mu = "unlocked") =>
        /\ ENABLED getOrderStatus(o)
        /\ ~ENABLED (/\ getOrderStatus(o)
                     /\ ~(/\ ~lastCall'.result.found
                          /\ orders' = orders /\ clients' = clients))
        /\ ENABLED getOrderEvents(o)
        /\ ~ENABLED (/\ getOrderEvents(o)
                     /\ ~(/\ lastCall'.code = 404
                          /\ orders' = orders /\ clients' = clients))
        /\ ENABLED deleteOrder(o)
        /\ ~ENABLED (/\ deleteOrder(o)
                     /\ ~(/\ ~lastCall'.ok
                          /\ orders' = orders /\ clients' = clients))

C17_Witness ==
    /\ lastCall.op = "DeleteOrder"
    /\ ~lastCall.ok
    /\ lastCall.orderID \notin DOMAIN orders
    /\ Exists(clients, lastCall.orderID)
    /\ clients[lastCall.orderID] # << >>
    /\ orders # EmptyMap

\* C18: a bulk deletion answers with deleted + not_found = total_requested,
\* the length of the list; deleted is the number of orders its calls
\* removed; and when no event was applied while it ran, none of the listed
\* identifiers is in the store when it answers, whatever unknown
\* identifiers the list holds.
C18_BulkPerItem ==
    bulk.op = "bulkDeleted" =>
      /\ bulk.response.deleted + bulk.response.not_found
           = bulk.response.total_requested
      /\ bulk.response.total_requested = Len(bulk.orderIDs)
      /\ bulk.response.deleted = bulk.removed
      /\ bulk.quiet => bulk.left = {}

C18_Witness ==
    /\ bulk.op = "bulkDeleted"
    /\ bulk.orderIDs = <<"Y", "X">>
    /\ bulk.response.not_found = 1
    /\ bulk.response.deleted = 1
    /\ bulk.quiet

IsPrefix(s, t) == Len(s) <= Len(t) /\ SubSeq(t, 1, Len(s)) = s

\* C19: an order stays in the store, and its events stay a prefix of its
\* later events, through every step; the only step after which an order is
\* gone is a DeleteOrder of its id that returns true.
C19_NoEviction ==
    [][\A o \in DOMAIN orders :
         IF o \in DOMAIN orders'
         THEN IsPrefix(orders[o].Events, orders'[o].Events)
         ELSE lastCall'.op = "DeleteOrder" /\ lastCall'.orderID = o
              /\ lastCall'.ok]_vars

C19_Witness ==
    /\ Exists(orders, "X")
    /\ Len(orders["X"].Events) >= 2
    /\ Len(inbox["c1"]) >= 2
    /\ lastCall.op = "getOrderEvents"
    /\ lastCall.orderID = "X"

\* C20: ReserveStock(p, q) returns true and lowers the stock of p by
\* exactly q when p exists with a stock of at least q; otherwise it returns
\* false and leaves the stock of every product and the history unchanged.
C20_ReserveStock ==
    invCall.op = "ReserveStock" =>
      LET p == invCall.productID
          q == invCall.quantity
          was == invCall.products
      IN IF p \in DOMAIN was /\ was[p].Stock >= q
         THEN /\ invCall.ok
              /\ products[p].Stock = was[p].Stock - q
         ELSE /\ ~invCall.ok
              /\ DOMAIN products = DOMAIN was
              /\ \A x \in DOMAIN was : products[x].Stock = was[x].Stock
              /\ history = invCall.history

C20_Witness ==
    /\ invCall.op = "ReserveStock"
    /\ invCall.ok
    /\ invCall.quantity > 0
    /\ invCall.products[invCall.productID].Stock = invCall.quantity
    /\ invCall.history # << >>

(***************************************************************************)
(* The pipeline.                                                           *)
(***************************************************************************)
\* An event of the kind is in the topic for the order id.
Has(topic, orderID, kind) ==
    \E e \in Published(topic) : e.OrderID = orderID /\ e.EventType = kind

PublishedIDs == {e.OrderID : e \in UNION {Published(t) : t \in Topics}}

\* Every reader of the stages has read its whole topic.
PipelineQuiet ==
    \A r \in Readers : r.group # "status-service" => ~Unread(r)

\* C21: a payment event of an order is in the log only if an
\* InventoryConfirmed of it is, a NotificationSent or a Shipped only if a
\* PaymentCompleted of it is, and an order with an InventoryRejected has no
\* payment, notification or shipping event, an order with a PaymentFailed
\* no notification or shipping event, in every state the pipeline reaches.
C21_PipelineCausality ==
    \A o \in PublishedIDs :
      LET paid == Has("payment", o, "PaymentCompleted")
          failed == Has("payment", o, "PaymentFailed")
          told == Has("notification", o, "NotificationSent")
          shipped == Has("shipping", o, "Shipped")
      IN /\ (paid \/ failed) => Has("inventory", o, "InventoryConfirmed")
         /\ (told \/ shipped) => paid
         /\ Has("inventory", o, "InventoryRejected")
              => ~paid /\ ~failed /\ ~told /\ ~shipped
         /\ failed => ~told /\ ~shipped
         /\ \A e \in Published("notification") \cup Published("shipping") :
              e.OrderID = o => e.EventType \in {"NotificationSent", "Shipped"}

C21_Witness ==
    /\ PipelineQuiet
    /\ \E o \in PublishedIDs :
         Has("notification", o, "NotificationSent") /\ Has("shipping", o, "Shipped")
    /\ \E o \in PublishedIDs :
         Has("payment", o, "PaymentFailed")

(***************************************************************************)
(* The order of the records.                                               *)
(***************************************************************************)
\* The kind and the payload of the messages of an order id among the
\* messages of a topic that its worker has read, and those of the records
\* of the order that are of a kind of the topic.
ReadOf(topic, orderID) ==
    LET read == SubSeq(streams[topic], 1,
                       offsets[Reader("status-service", topic)])
        mine == SelectSeq(read, LAMBDA m : m.order_id = Str(orderID))
    IN [i \in DOMAIN mine |-> <<mine[i].event_type.str, mine[i].data>>]

RecordedOf(topic, orderID) ==
    LET kinds == {m.event_type.str : m \in LogMsgs(topic)}
        events == IF Exists(orders, orderID) THEN orders[orderID].Events ELSE << >>
        mine == SelectSeq(events, LAMBDA e : e.EventType \in kinds)
    IN [i \in DOMAIN mine |-> <<mine[i].EventType, jsonUnmarshal(mine[i].Data)>>]

\* C22: the records of an order that come from one stream are in `events`
\* in the order of the stream; when two workers each have an unread
\* message, either of them can be applied next; and `events` is in the
\* order of application: the record applied last is the last one, after the
\* records that were there, and the timestamps never decrease.
C22_StreamOrder ==
    /\ \A topic \in Topics, o \in OrderIDs :
         RecordedOf(topic, o) = ReadOf(topic, o)
    /\ \A t1, t2 \in Topics :
         (/\ t1 # t2
          /\ Unread(Reader("status-service", t1))
          /\ Unread(Reader("status-service", t2)))
         => /\ ENABLED consumeNext(t1, now, now)
            /\ ENABLED consumeNext(t2, now, now)
    /\ \A o \in DOMAIN orders :
         \A i, j \in DOMAIN orders[o].Events :
           i < j => orders[o].Events[i].Timestamp <= orders[o].Events[j].Timestamp
    /\ lastCall.op = "UpdateOrderStatus" =>
         orders[lastCall.orderID].Events
           = Append(lastCall.before.Events,
                    [EventType |-> lastCall.eventType,
                     Data |-> jsonMarshal(lastCall.data), Timestamp |-> now])

C22_Witness ==
    /\ Exists(orders, "X")
    /\ [i \in DOMAIN orders["X"].Events |->
          <<orders["X"].Events[i].EventType, orders["X"].PaymentAmount>>]
       = <<<<"PaymentCompleted", 2000>>, <<"OrderCreated", 2000>>,
           <<"PaymentCompleted", 2000>>>>
    /\ jsonUnmarshal(orders["X"].Events[1].Data).amount = Num(1000)
    /\ orders["X"].Events[1].Timestamp < orders["X"].Events[3].Timestamp

(***************************************************************************)
(* Snapshots.                                                              *)
(***************************************************************************)
\* The amount of the last PaymentCompleted record that carries a number.
RECURSIVE LastAmount(_)
LastAmount(events) ==
    IF events = << >> THEN 0
    ELSE IF /\ Last(events).EventType = "PaymentCompleted"
            /\ IsNum(jsonUnmarshal(Last(events).Data).amount)
         THEN jsonUnmarshal(Last(events).Data).amount.num
         ELSE LastAmount(SubSeq(events, 1, Len(events) - 1))

\* An order every record of which has had its effects.
Whole(order) ==
    /\ order.Status = LastTableStatus(order.Events)
    /\ order.PaymentAmount = LastAmount(order.Events)

\* What the handler sees now through the pointers it holds.
Seen == [k \in DOMAIN held.result |-> Deref(held.result[k])]

\* C23: what a read returned is, order by order, the content of the store
\* at the instant of the read, an instant at which every record in the
\* store has had its effects; it covers the orders the read is to return;
\* and what the handler sees through it stays what was returned, whatever
\* is applied afterwards.
C23_AtomicSnapshots ==
    held.op # "none" =>
      LET ids == {Seen[k].OrderID : k \in DOMAIN Seen}
          at == held.store
      IN /\ Seen = held.returned
         /\ \A k \in DOMAIN Seen :
              /\ Exists(at, Seen[k].OrderID)
              /\ Seen[k] = at[Seen[k].OrderID]
              /\ Whole(Seen[k])
         /\ \A o \in DOMAIN at : Whole(at[o])
         /\ \A k1, k2 \in DOMAIN Seen : Seen[k1] = Seen[k2] => k1 = k2
         /\ ids = CASE held.op = "GetOrderStatus" -> DOMAIN at \cap {held.req.orderID}
                    [] held.op = "GetAllOrders" -> DOMAIN at
                    [] held.op = "GetFilteredOrders" ->
                         {o \in DOMAIN at : at[o].Status = held.req.filter.Status}
                    [] held.op = "SearchOrders" -> DOMAIN at \cap {"X"}
                    [] held.op = "GetStatistics" -> DOMAIN at

C23_Witness ==
    /\ held.op = "GetAllOrders"
    /\ DOMAIN held.store = {"X", "Y"}
    /\ held.store["X"].Status = "created"
    /\ mu = "locked" /\ call.op = "UpdateOrderStatus" /\ call.orderID = "X"
    /\ Len(orders["X"].Events) = Len(held.store["X"].Events) + 1
    /\ ~Whole(orders["X"])

(***************************************************************************)
(* The daily report.                                                       *)
(***************************************************************************)
\* The order ids of a list of orders.
IdsOf(l) == {l[i].OrderID : i \in DOMAIN l}

\* C24: the orders of the daily report of a valid date D are the orders
\* that GetFilteredOrders returns for date_from = D, date_to = D and
\* nothing else, and the counts per status and per product and the revenue
\* of the report are those of that set.
C24_ReportIsDayFilter ==
    (lastCall.op = "getDailyReport" /\ lastCall.code = 200) =>
      \A l \in GetFilteredOrders(OrderFilter("", "", lastCall.date, lastCall.date, 0, 0)) :
        LET ids == IdsOf(l) IN
        /\ IdsOf(lastCall.orders) = ids
        /\ lastCall.total_orders = Cardinality(ids)
        /\ \A st \in {orders[o].Status : o \in DOMAIN orders} :
             Cardinality({o \in ids : orders[o].Status = st})
               = IF st \in DOMAIN lastCall.orders_by_status
                 THEN lastCall.orders_by_status[st] ELSE 0
        /\ \A pr \in {orders[o].ProductID : o \in DOMAIN orders} \ {""} :
             Cardinality({o \in ids : orders[o].ProductID = pr})
               = IF pr \in DOMAIN lastCall.orders_by_product
                 THEN lastCall.orders_by_product[pr] ELSE 0
        /\ lastCall.total_revenue
             = SumOver([o \in ids |-> orders[o].PaymentAmount],
                       {o \in ids : orders[o].Status \in {"payment_completed", "shipped"}})

(***************************************************************************)
(* The recent orders of the statistics.                                    *)
(***************************************************************************)
\* C25: recent_orders of GetStatistics lists min(10, total_orders) orders
\* of the store, in descending last_updated order, and no order of the
\* store that is left out was updated later than a listed one.
C25_MostRecent ==
    lastCall.op = "GetStatistics" =>
      LET recent == lastCall.result.RecentOrders
          total == Cardinality(DOMAIN orders)
      IN /\ Len(recent) = IF total < RecentLimit THEN total ELSE RecentLimit
         /\ \A i \in DOMAIN recent :
              /\ Exists(orders, recent[i].OrderID)
              /\ recent[i] = orders[recent[i].OrderID]
         /\ \A i, j \in DOMAIN recent :
              i < j => /\ recent[i].OrderID # recent[j].OrderID
                       /\ recent[i].LastUpdated >= recent[j].LastUpdated
         /\ \A o \in DOMAIN orders \ IdsOf(recent) :
              \A i \in DOMAIN recent :
                orders[o].LastUpdated <= recent[i].LastUpdated

(***************************************************************************)
(* The stock along the pipeline.                                           *)
(***************************************************************************)
\* The quantity the history records as reserved for a product.
ReservedOf(p) ==
    SumOver([i \in DOMAIN history |-> history[i].Quantity],
            {i \in DOMAIN history : history[i].ProductID = p
                                    /\ history[i].Action = "reserved"})

\* The quantity reserved for the orders of a product whose payment failed.
FailedOf(p) ==
    LET failed == {e \in Published("payment") :
                     e.EventType = "PaymentFailed" /\ e.ProductID = p}
    IN SumOver([e \in failed |-> e.Quantity], failed)

\* C26: once every stage has read all of its topic, the stock of a product
\* is its initial stock less the reservations of the orders whose payment
\* did not fail: the reservation of an order with a PaymentFailed has been
\* released.
C26_Compensation ==
    PipelineQuiet =>
      \A p \in DOMAIN products :
        products[p].Stock = NewInventory[p].Stock - ReservedOf(p) + FailedOf(p)

\* C27: when the inventory service has just consumed an OrderCreated
\* message that it had consumed before, the stock of every product is what
\* it was before this second consumption.
C27_Idempotent ==
    LET n == offsets[Reader("inventory-service", "orders")] IN
    (/\ n >= 2
     /\ \E i \in 1..(n - 1) : streams["orders"][i] = streams["orders"][n])
    => \A p \in DOMAIN products :
         products[p].Stock = invCall.products[p].Stock

(***************************************************************************)
(* The stock under interleaved calls.                                      *)
(***************************************************************************)
\* The net quantity the history records as added to a product by UpdateStock.
AdjustedOf(p) ==
    SumOver([i \in DOMAIN history |->
               IF history[i].Action = "increased" THEN history[i].Quantity
               ELSE -history[i].Quantity],
            {i \in DOMAIN history : history[i].ProductID = p
                                    /\ history[i].Action \in {"increased", "decreased"}})

\* C28: in every state that interleaved ReserveStock and UpdateStock calls
\* reach, no stock is negative, the quantity reserved of a product is at
\* most its initial stock plus the net quantity added by the successful
\* updates, and an UpdateStock that would make the stock negative can only
\* return the error and leave the products and the history as they are.
C28_AtomicReservation ==
    /\ \A p \in DOMAIN products :
         /\ products[p].Stock >= 0
         /\ ReservedOf(p) <= NewInventory[p].Stock + AdjustedOf(p)
         /\ products[p].Stock = NewInventory[p].Stock + AdjustedOf(p) - ReservedOf(p)
    /\ \A p \in DOMAIN products, q \in InventoryQuantities :
         products[p].Stock + q < 0 =>
           /\ ENABLED UpdateStock(p, q, "Manual adjustment")
           /\ ~ENABLED (/\ UpdateStock(p, q, "Manual adjustment")
                        /\ ~(/\ invCall'.err = "insufficient stock"
                             /\ products' = products
                             /\ history' = history))

C28_Witness ==
    /\ invCall.op = "UpdateStock" /\ invCall.err = "insufficient stock"
    /\ invCall.productID = "product-3" /\ invCall.quantity = -5
    /\ products["product-3"].Stock = 0
    /\ ReservedOf("product-3") = 25
    /\ \E i \in DOMAIN history : history[i].Action = "increased"

(***************************************************************************)
(* The latency per stage.                                                  *)
(***************************************************************************)
\* The orders with more than k events, and the sum over them of the time
\* from the first event to event k + 1.
Reaching(k) == {o \in DOMAIN orders : Len(orders[o].Events) >= k + 1}

TotalTo(k) ==
    SumOver([o \in Reaching(k) |-> orders[o].Events[k + 1].Timestamp
                                     - orders[o].Events[1].Timestamp],
            Reaching(k))

\* C29: the statistics report a value for stage k exactly when an order has
\* more than k events (k >= 1), and the value is the average, rounded down
\* to an integer, of event k + 1's timestamp minus the first event's
\* timestamp over the orders with more than k events; an order with fewer
\* than two events is in none of these sets.
C29_StageLatency ==
    lastCall.op = "GetStatistics" =>
      LET pt == lastCall.result.ProcessingTime IN
      /\ DOMAIN pt = {k \in 1..MaxLatencyEvents : Reaching(k) # {}}
      /\ \A k \in DOMAIN pt :
           /\ pt[k] * Cardinality(Reaching(k)) <= TotalTo(k)
           /\ TotalTo(k) < (pt[k] + 1) * Cardinality(Reaching(k))
      /\ \A o \in DOMAIN orders :
           Len(orders[o].Events) < 2 => \A k \in DOMAIN pt : o \notin Reaching(k)

C29_Witness ==
    /\ lastCall.op = "GetStatistics"
    /\ DOMAIN lastCall.result.ProcessingTime = {1, 2}
    /\ Cardinality(Reaching(1)) = 2 /\ TotalTo(1) = 5
    /\ lastCall.result.ProcessingTime[1] = 2
    /\ lastCall.result.ProcessingTime[2] = 4

C31_OrderedPushes ==
    \A c \in Conns :
        \A i \in 1..Len(inbox[c]) :
            /\ inbox[c][i].order_id = sub[c].orderID
            /\ i > 1 => /\ Len(inbox[c][i].events) = Len(inbox[c][i - 1].events) + 1
                        /\ SubSeq(inbox[c][i].events, 1, Len(inbox[c][i - 1].events))
                             = inbox[c][i - 1].events

\* A subscriber has received three messages with one, two and three events,
\* applied by the workers of the orders and of the payment topic.
C31_Witness ==
    /\ Len(inbox["c1"]) = 3
    /\ Len(inbox["c1"][1].events) = 1
    /\ Len(inbox["c1"][3].events) = 3
    /\ {"OrderCreated", "PaymentCompleted"} \subseteq Range(Kinds(inbox["c1"][3].events))

\* The orders to which PaymentCompleted and Shipped have both been applied.
PaidAndShipped ==
    {o \in DOMAIN orders :
       {"PaymentCompleted", "Shipped"} \subseteq Range(Kinds(orders[o].Events))}

\* C32 (as stated): GetStatistics includes the amount of every order to
\* which PaymentCompleted and Shipped have both been applied in
\* total_revenue and counts the order in completion_rate, whether
\* NotificationSent was applied before or after Shipped.
C32_RevenueIgnoresRace ==
    lastCall.op = "GetStatistics" =>
      LET st == lastCall.result IN
      /\ st.TotalRevenue >=
           SumOver([o \in PaidAndShipped |-> LastAmount(orders[o].Events)],
                   PaidAndShipped)
      /\ PaidAndShipped # {} =>
           st.CompletionRate.num * st.TotalOrders
             >= Cardinality(PaidAndShipped) * 100 * st.CompletionRate.den

\* The connections registered for an order id.
RegisteredFor(o) == IF Exists(clients, o) THEN Range(clients[o]) ELSE {}

\* A completed UpdateOrderStatus has collected the closed subscribers of its
\* order: a connection still registered for the order and closed now was
\* open when the push wrote to it, and no connection the push failed on is
\* registered for the order.
PushCollects ==
    (lastCall.op = "UpdateOrderStatus" /\ call = NoCall) =>
        /\ \A c \in RegisteredFor(lastCall.orderID) :
              conn[c] = "failed" =>
                  \E i \in 1..Len(writes) : writes[i].conn = c /\ writes[i].ok
        /\ \A i \in 1..Len(writes) :
              ~writes[i].ok => writes[i].conn \notin RegisteredFor(lastCall.orderID)

\* A DeleteOrder of order id o leaves no closed subscriber of o registered.
DeleteCollects(o) ==
    \A c \in Conns :
        (mu = "unlocked" /\ conn[c] = "failed" /\ c \in RegisteredFor(o)) =>
            ~ENABLED (deleteOrder(o) /\ o \in DOMAIN clients')

\* A step that takes a connection out of the registry is the end of a push
\* for the order id it subscribed to or a DeleteOrder of that id.
OnlyCollectedBy ==
    \A c \in Conns :
        (Registered(c) /\ ~(\E o \in DOMAIN clients' : c \in Range(clients'[o]))) =>
            \/ /\ call.op = "notifyClients"
               /\ call.orderID = sub[c].orderID
               /\ call' = NoCall
            \/ /\ lastCall'.op = "DeleteOrder"
               /\ lastCall'.orderID = sub[c].orderID
               /\ Exists(orders, sub[c].orderID)
               /\ ~Exists(orders', sub[c].orderID)

\* C33 (as stated): a subscriber whose connection has closed stays in the
\* registry until the next UpdateOrderStatus or DeleteOrder for its order
\* id and is absent from the registry once that operation completes; the
\* registry of an order that has just been pushed to holds no subscriber to
\* which that push failed.
C33_LazyCollection ==
    /\ [](PushCollects /\ \A o \in OrderIDs : DeleteCollects(o))
    /\ [][OnlyCollectedBy]_vars

\* C33 (amended): a subscriber whose connection has closed stays in the
\* registry until the next UpdateOrderStatus for its order id or the next
\* DeleteOrder that finds its order in the store, and is absent from the
\* registry once that operation completes; a DeleteOrder of an id that is
\* not in the store leaves it registered; the registry of an order that has
\* just been pushed to holds no subscriber to which that push failed.
C33_LazyCollectionOfStored ==
    /\ [](/\ PushCollects
          /\ \A o \in OrderIDs :
               IF Exists(orders, o) THEN DeleteCollects(o)
               ELSE mu = "unlocked" =>
                      ~ENABLED (deleteOrder(o) /\ clients' # clients))
    /\ [][OnlyCollectedBy]_vars

\* A push for X has failed on the closed c1 and reached c2: c1 is out of the
\* registry and c2 is in it.
C33_Witness ==
    /\ lastCall.op = "UpdateOrderStatus"
    /\ lastCall.orderID = "X"
    /\ call = NoCall
    /\ lastCall.registered = {"c1", "c2"}
    /\ conn["c1"] = "failed" /\ conn["c2"] = "ok"
    /\ \E i \in 1..Len(writes) : writes[i].conn = "c1" /\ ~writes[i].ok
    /\ RegisteredFor("X") = {"c2"}

\* The connections that subscribed to an order id that was not in the store.
EarlySubscribers == {c \in Conns : sub[c].orderID # "" /\ sub[c].snapshot = << >>}

\* AddClient for an order id that is not in the store registers the
\* connection and writes nothing.
SubscribesSilently ==
    (lastCall.op = "AddClient" /\ lastCall.conn \in EarlySubscribers) =>
        /\ call = NoCall /\ mu = "unlocked" /\ writes = << >>
        /\ inbox[lastCall.conn] = << >>
        /\ lastCall.conn \in Range(clients[lastCall.orderID])

\* Connection c has received one message per event applied to its order id
\* since it subscribed, the i-th with i event records.
PushPerEvent(c) ==
    /\ Len(inbox[c]) = sub[c].updates
    /\ \A i \in 1..Len(inbox[c]) :
         /\ inbox[c][i].order_id = sub[c].orderID
         /\ Len(inbox[c][i].events) = i

\* C34 (as stated): subscribing to an order id that has no state registers
\* the subscriber without any initial message; the subscriber receives its
\* first snapshot as the push of the first event applied to that id, and
\* one push per event after that.
C34_FirstPushIsFirstEvent ==
    /\ SubscribesSilently
    /\ \A c \in EarlySubscribers :
         (conn[c] = "ok" /\ mu = "unlocked") => PushPerEvent(c)

\* C34 (amended): subscribing to an order id that has no state registers
\* the subscriber without any initial message; for as long as its
\* connection is open and the order has not been deleted since, it receives
\* its first snapshot as the push of the first event applied to that id,
\* and one push per event after that.
C34_FirstPushWhileRegistered ==
    /\ SubscribesSilently
    /\ \A c \in EarlySubscribers :
         (conn[c] = "ok" /\ mu = "unlocked" /\ c \notin DOMAIN torn) =>
             /\ PushPerEvent(c)
             /\ c \in Range(clients[sub[c].orderID])

\* c1 subscribed to X before X had any state and has since received the
\* order with one event and then with two.
C34_Witness ==
    /\ "c1" \in EarlySubscribers
    /\ sub["c1"].orderID = "X"
    /\ conn["c1"] = "ok" /\ mu = "unlocked"
    /\ "c1" \notin DOMAIN torn
    /\ sub["c1"].updates = 2
    /\ Len(inbox["c1"]) = 2
    /\ Len(inbox["c1"][1].events) = 1
    /\ Len(inbox["c1"][2].events) = 2

\* Order id o was deleted and exactly one event has been applied to it since.
Recreated(o) ==
    /\ lastCall.op = "UpdateOrderStatus"
    /\ lastCall.orderID = o
    /\ since[o] > 0
    /\ applied[o] = since[o] + 1

\* C35: after a DeleteOrder of X, the next event applied to X materialises a
\* new order: its events hold that event alone, its product_id, quantity,
\* tracking_number and payment_amount are those the event itself sets and
\* empty otherwise, and the connections registered for X all subscribed
\* after the deletion.
C35_FromScratch ==
    \A o \in OrderIDs :
      Recreated(o) =>
        LET order == orders[o]
            m == jsonUnmarshal(jsonMarshal(lastCall.data))
            kind == lastCall.eventType
        IN /\ ~lastCall.exists
           /\ order.OrderID = o
           /\ Len(order.Events) = 1
           /\ order.Events[1].EventType = kind
           /\ order.ProductID = IF kind = "OrderCreated" /\ IsStr(m.product_id)
                                THEN m.product_id.str ELSE ""
           /\ order.Quantity = IF kind = "OrderCreated" /\ IsNum(m.quantity)
                               THEN IntOf(m.quantity.num) ELSE 0
           /\ order.PaymentAmount = IF kind = "PaymentCompleted" /\ IsNum(m.amount)
                                    THEN m.amount.num ELSE 0
           /\ order.TrackingNumber = IF kind = "Shipped" /\ IsStr(m.tracking_number)
                                     THEN m.tracking_number.str ELSE ""
           /\ \A c \in lastCall.registered \cup RegisteredFor(o) :
                c \notin DOMAIN torn

\* X was created with a product and a quantity and deleted with c1
\* subscribed; a PaymentCompleted has re-created it with the amount alone,
\* and only c2, which subscribed after the deletion, is registered.
C35_Witness ==
    /\ Recreated("X")
    /\ lastCall.eventType = "PaymentCompleted"
    /\ orders["X"].ProductID = "" /\ orders["X"].Quantity = 0
    /\ orders["X"].PaymentAmount = 1000
    /\ "c1" \in DOMAIN torn /\ sub["c1"].orderID = "X"
    /\ torn["c1"] # << >> /\ Last(torn["c1"]).product_id = "P1"
    /\ lastCall.registered = {"c2"}
    /\ call = NoCall

\* C36 (as stated): GetStatistics never divides by zero: in every store,
\* also a non-empty one without any payment_completed or shipped order,
\* average_order_value is a number, 0 when no order bears revenue, and
\* completion_rate lies between 0 and 100.
C36_NoDivisionByZero ==
    lastCall.op = "GetStatistics" =>
      LET st == lastCall.result IN
      /\ st.AverageOrderValue.den # 0
      /\ (\A o \in DOMAIN orders : ~Recognized(o)) => st.AverageOrderValue.num = 0
      /\ st.CompletionRate.den > 0
      /\ 0 <= st.CompletionRate.num
      /\ st.CompletionRate.num <= 100 * st.CompletionRate.den

\* C37 (as stated): once disconnect() has closed the client's socket, the
\* client opens no new connection: no close sets a reconnection timeout,
\* and no timeout set earlier calls connect().
C37_NoReconnectAfterDisconnect ==
    ws.disconnected =>
        /\ \A s \in 1..MaxSockets :
             ~ENABLED (onclose(s) /\ Len(ws'.timers) > Len(ws.timers))
        /\ \A i \in 1..maxReconnectAttempts, thrown \in BOOLEAN :
             ~ENABLED runTimeout(i, thrown)

\* The order ids of a list of orders.
PageIDs(page) == {page[i].OrderID : i \in 1..Len(page)}

\* The pages a client can be given for page number k (from 0) of size limit.
PagesAt(status, limit, k) ==
    GetFilteredOrders(OrderFilter(status, "", "", "", limit, k * limit))

\* C38 (as stated): over an unchanged store and a fixed filter, the pages
\* obtained with limit L > 0 and offsets 0, L, 2L, ... are pairwise disjoint
\* and together contain every matching order exactly once, also when several
\* matching orders have the same last_updated.
C38_PaginationPartitions ==
    \A status \in {"", "payment_completed"}, limit \in {1, 2} :
      LET matching == {o \in DOMAIN orders :
                         status # "" => orders[o].Status = status}
          n == Cardinality(matching)
          rest(k) == IF n > k * limit THEN n - k * limit ELSE 0
      IN \A k \in 0..n :
           \A page \in PagesAt(status, limit, k) :
             /\ PageIDs(page) \subseteq matching
             /\ Len(page) = IF rest(k) < limit THEN rest(k) ELSE limit
             /\ Cardinality(PageIDs(page)) = Len(page)
             /\ \A j \in 0..(k - 1) :
                  \A earlier \in PagesAt(status, limit, j) :
                    PageIDs(earlier) \cap PageIDs(page) = {}

\* C39: whenever the lock of the store is free, each entry of the order map
\* has the order id of its key and at least one event record, and every
\* order a read has returned has the order id it is stored under and at
\* least one event record: the entry UpdateOrderStatus stores before it
\* appends the first record exists under the exclusive lock only.
C39_WellFormedStore ==
    /\ mu = "unlocked" =>
         \A o \in DOMAIN orders :
             orders[o].OrderID = o /\ orders[o].Events # << >>
    /\ held.op # "none" =>
         \A k \in DOMAIN held.returned :
             /\ held.returned[k].Events # << >>
             /\ Exists(held.store, held.returned[k].OrderID)
             /\ held.op = "GetAllOrders" => held.returned[k].OrderID = k

\* UpdateOrderStatus holds the lock with the new entry of Y stored and no
\* record appended yet, after a read of all orders that returned X, and X
\* has been deleted and re-created in between.
C39_Witness ==
    /\ mu = "locked"
    /\ call.op = "UpdateOrderStatusLookup" /\ call.orderID = "Y" /\ ~call.exists
    /\ Exists(orders, "Y") /\ orders["Y"].Events = << >>
    /\ held.op = "GetAllOrders" /\ DOMAIN held.returned = {"X"}
    /\ since["X"] > 0 /\ Exists(orders, "X")

=========================================================================
